---- MODULE Spec2Model ----
(***************************************************************************)
(* Collaborative coding room engine (Backend server + TerminalManager).    *)
(*                                                                         *)
(* JavaScript strings that the code inspects character by character (file  *)
(* paths, extensions) are sequences of one-character strings; file         *)
(* contents, of which the code only tests equality and truthiness, are     *)
(* TLA+ strings.  A JavaScript object (roomFiles[roomCode]) is a sequence   *)
(* of <<key, node>> entries in insertion order.  Time is counted in ticks   *)
(* of TickMs milliseconds; a pending timer carries the ticks it has left.   *)
(***************************************************************************)
EXTENDS Integers, Sequences, FiniteSets, TLC

VARIABLES
    store,                      \* rooms collection of the database: code -> password
    connected,                  \* sockets whose connection is open
    socketRooms,                \* socket.io rooms each socket has joined
    rooms,                      \* rooms[roomCode]: list of socket ids
    roomFiles,                  \* roomFiles[roomCode]: path -> node, in insertion order
    userActiveFiles,            \* userActiveFiles[socketId]: path
    userSession,                \* userSession: socketId -> roomCode
    terminals,                  \* TerminalManager.terminals: userId -> PTY (its cwd room)
    sharedWorkingDirectories,   \* TerminalManager.sharedWorkingDirectories (room codes)
    fileWatchers,               \* TerminalManager.fileWatchers: room -> watcher state
    userRooms,                  \* TerminalManager.userRooms: userId -> roomCode
    fileSyncInProgress,         \* TerminalManager.fileSyncInProgress: token -> ticks left
    disk,                       \* compiler_<room> directories: room -> path -> entry
    ptyExits,                   \* killed PTY processes whose onExit has not run yet
    immediates,                 \* setImmediate queue of deferred disk writes
    syncTimers,                 \* setTimeout(syncRoomFilesToWorkingDir, 500) timers
    respawnTimers,              \* setTimeout(initializeTerminal, 1000) timers
    joinsAwaiting,              \* join-room handlers at their await of findOne / compare
    out,                        \* what the last step emitted and wrote, in order
    hist                        \* history: the create-folder / code-change just handled

vars == <<store, connected, socketRooms, rooms, roomFiles, userActiveFiles,
          userSession, terminals, sharedWorkingDirectories, fileWatchers,
          userRooms, fileSyncInProgress, disk, ptyExits,
          immediates, syncTimers, respawnTimers, joinsAwaiting, out, hist>>

(***************************************************************************)
(* Bounds of the model.                                                    *)
(***************************************************************************)
MaxNodes == 3           \* a room's tree holds at most this many nodes
MaxImmediates == 1      \* deferred writes waiting in the setImmediate queue
MaxDiskEntries == 3     \* entries of a working directory the shell may create up to
MaxEvents == 1          \* watcher events waiting when a shell removes or makes an entry

(***************************************************************************)
(* Program constants.                                                      *)
(***************************************************************************)
TickMs == 100                   \* awaitWriteFinish.pollInterval
TokenDelayMs == 300             \* setTimeout(... fileSyncInProgress.delete, 300)
StabilityThresholdMs == 500     \* awaitWriteFinish.stabilityThreshold
SyncDelayMs == 500              \* setTimeout(syncRoomFilesToWorkingDir, 500)
RespawnDelayMs == 1000          \* setTimeout(initializeTerminal, 1000)
TokenTicks == TokenDelayMs \div TickMs
StabilityTicks == StabilityThresholdMs \div TickMs
SyncTicks == SyncDelayMs \div TickMs
RespawnTicks == RespawnDelayMs \div TickMs

(***************************************************************************)
(* Strings.                                                                *)
(***************************************************************************)
EmptyMap == [x \in {} |-> x]     \* a Map or object without keys
Undefined == <<"undefined">>    \* the JavaScript value undefined (no string equals it)
Slash == "/"
Dot == "."
MainJs == <<"m", "a", "i", "n", ".", "j", "s">>
ExtJs == <<"j", "s">>
ExtPy == <<"p", "y">>
ExtTxt == <<"t", "x", "t">>
DefaultMainContent == "// start typing..."

\* s.startsWith(p)
StartsWith(s, p) == Len(p) <= Len(s) /\ SubSeq(s, 1, Len(p)) = p

\* key === p || key.startsWith(p + '/')
AtOrBelow(key, p) == key = p \/ StartsWith(key, p \o <<Slash>>)

\* parentFolder ? `${parentFolder}/${name}` : name
JoinPath(parentFolder, name) ==
    IF parentFolder = <<>> THEN name ELSE parentFolder \o <<Slash>> \o name

\* positions of character c in s
Positions(s, c) == {i \in 1..Len(s) : s[i] = c}

MaxOf(S) == CHOOSE x \in S : \A y \in S : y <= x

\* s.split('.').pop(): what follows the last '.', the whole string when there is none
SplitPop(s) ==
    IF Positions(s, Dot) = {} THEN s
    ELSE SubSeq(s, MaxOf(Positions(s, Dot)) + 1, Len(s))

\* path.basename(p)
Basename(p) ==
    IF Positions(p, Slash) = {} THEN p
    ELSE SubSeq(p, MaxOf(Positions(p, Slash)) + 1, Len(p))

\* path.dirname(p) relative to the working directory (<<>> is the directory itself)
Dirname(p) ==
    IF Positions(p, Slash) = {} THEN <<>>
    ELSE SubSeq(p, 1, MaxOf(Positions(p, Slash)) - 1)

\* path.extname(p).slice(1): from the last '.' of the basename, '' when the
\* basename has no '.' or only a leading one
ExtnameSlice(p) ==
    LET b == Basename(p)
        dots == Positions(b, Dot)
    IN  IF dots = {} \/ MaxOf(dots) = 1 THEN <<>>
        ELSE SubSeq(b, MaxOf(dots) + 1, Len(b))

\* x || 'txt'
OrTxt(x) == IF x = <<>> THEN ExtTxt ELSE x

\* the proper ancestors of p: every prefix that ends right before a '/'
Ancestors(p) == {SubSeq(p, 1, i - 1) : i \in Positions(p, Slash)}

(***************************************************************************)
(* getDefaultContent.                                                      *)
(***************************************************************************)
\* templates[extension] || '// New file\n'
getDefaultContent(extension) ==
    IF extension = ExtJs THEN "// JavaScript file\nconsole.log(\"Hello, World!\");"
    ELSE IF extension = <<"j", "s", "x">>
    THEN "import React from \"react\";\n\nfunction Component() {\n  return <div>Hello, World!</div>;\n}\n\nexport default Component;"
    ELSE IF extension = <<"t", "s">>
    THEN "// TypeScript file\nconst message: string = \"Hello, World!\";\nconsole.log(message);"
    ELSE IF extension = <<"t", "s", "x">>
    THEN "import React from \"react\";\n\ninterface Props {}\n\nconst Component: React.FC<Props> = () => {\n  return <div>Hello, World!</div>;\n};\n\nexport default Component;"
    ELSE IF extension = ExtPy THEN "# Python file\nprint(\"Hello, World!\")"
    ELSE IF extension = <<"h", "t", "m", "l">>
    THEN "<!DOCTYPE html>\n<html>\n<head>\n    <title>Document</title>\n</head>\n<body>\n    <h1>Hello, World!</h1>\n</body>\n</html>"
    ELSE IF extension = <<"c", "s", "s">>
    THEN "/* CSS file */\nbody {\n    margin: 0;\n    padding: 0;\n    font-family: Arial, sans-serif;\n}"
    ELSE IF extension = <<"j", "s", "o", "n">> THEN "{\n  \"name\": \"example\",\n  \"version\": \"1.0.0\"\n}"
    ELSE IF extension = <<"m", "d">> THEN "# Markdown File\n\nHello, World!"
    ELSE IF extension = ExtTxt THEN "Hello, World!"
    ELSE "// New file\n"

(***************************************************************************)
(* JavaScript objects with string keys: roomFiles[roomCode].               *)
(***************************************************************************)
Digits == {"0", "1", "2", "3", "4", "5", "6", "7", "8", "9"}
DigitValue(c) == CHOOSE n \in 0..9 : <<"0", "1", "2", "3", "4", "5", "6", "7", "8", "9">>[n + 1] = c

\* an integer-like key ("7", "12"): Object.keys lists these first, ascending
IsIndexKey(k) ==
    /\ k # <<>>
    /\ \A i \in 1..Len(k) : k[i] \in Digits
    /\ (Len(k) > 1 => k[1] # "0")

RECURSIVE IndexValue(_)
IndexValue(k) ==
    IF k = <<>> THEN 0
    ELSE 10 * IndexValue(SubSeq(k, 1, Len(k) - 1)) + DigitValue(k[Len(k)])

RECURSIVE SeqFilter(_, _)
SeqFilter(s, keep) ==
    IF s = <<>> THEN <<>>
    ELSE IF s[1] \in keep THEN <<s[1]>> \o SeqFilter(Tail(s), keep)
    ELSE SeqFilter(Tail(s), keep)

RECURSIVE SortIndexKeys(_)
SortIndexKeys(S) ==
    IF S = {} THEN <<>>
    ELSE LET m == CHOOSE k \in S : \A j \in S : IndexValue(k) <= IndexValue(j)
         IN  <<m>> \o SortIndexKeys(S \ {m})

KeySet(obj) == {obj[i].key : i \in 1..Len(obj)}
InsertionKeys(obj) == [i \in 1..Len(obj) |-> obj[i].key]

\* Object.keys(obj)
ObjectKeys(obj) ==
    LET idx == {k \in KeySet(obj) : IsIndexKey(k)}
    IN  SortIndexKeys(idx) \o SeqFilter(InsertionKeys(obj), KeySet(obj) \ idx)

Has(obj, k) == k \in KeySet(obj)

\* obj[k]
Get(obj, k) == obj[CHOOSE i \in 1..Len(obj) : obj[i].key = k].node

\* obj[k] = node: an existing key keeps its place, a new key goes last
Put(obj, k, node) ==
    IF Has(obj, k)
    THEN [i \in 1..Len(obj) |-> IF obj[i].key = k THEN [key |-> k, node |-> node] ELSE obj[i]]
    ELSE Append(obj, [key |-> k, node |-> node])

RECURSIVE DeleteKeys(_, _)
\* delete obj[k] for every k of ks
DeleteKeys(obj, ks) ==
    IF obj = <<>> THEN <<>>
    ELSE IF obj[1].key \in ks THEN DeleteKeys(Tail(obj), ks)
    ELSE <<obj[1]>> \o DeleteKeys(Tail(obj), ks)

FileNode(content, extension) ==
    [type |-> "file", content |-> content, extension |-> extension, isExpanded |-> FALSE]
FolderNode == [type |-> "folder", isExpanded |-> FALSE]

\* Object.keys(files).filter(key => files[key].type === 'file')
FileKeys(obj) ==
    SeqFilter(ObjectKeys(obj), {k \in KeySet(obj) : Get(obj, k).type = "file"})

\* the keys below p without p itself
KeysBelow(obj, p) ==
    SeqFilter(ObjectKeys(obj), {k \in KeySet(obj) : StartsWith(k, p \o <<Slash>>)})

\* the keys that start with p, whether or not a '/' follows
KeysStartingWith(obj, p) ==
    SeqFilter(ObjectKeys(obj), {k \in KeySet(obj) : StartsWith(k, p)})

\* Object.keys(files).filter(key => key === p || key.startsWith(p + '/'))
KeysAtOrBelow(obj, p) ==
    SeqFilter(ObjectKeys(obj), {k \in KeySet(obj) : AtOrBelow(k, p)})

Range(s) == {s[i] : i \in 1..Len(s)}

\* a membership test that never finds the element
NeverIncludes(list, x) == FALSE

\* Array.prototype.includes
Includes(list, x) == x \in Range(list)

getDefaultFiles == <<[key |-> MainJs, node |-> FileNode(DefaultMainContent, ExtJs)]>>

\* m[k] of a Map or object m kept as a function on its keys
Lookup(m, k) == IF k \in DOMAIN m THEN m[k] ELSE Undefined
\* m[k] = v
Assign(m, k, v) == [x \in DOMAIN m \cup {k} |-> IF x = k THEN v ELSE m[x]]
\* delete m[k]
Remove(m, k) == [x \in DOMAIN m \ {k} |-> m[x]]
RemoveAll(m, ks) == [x \in DOMAIN m \ ks |-> m[x]]

(***************************************************************************)
(* The state as one record, so that a handler is the composition of the    *)
(* methods it calls.  `out' starts empty in every step.                    *)
(***************************************************************************)
Cur ==
    [store |-> store, connected |-> connected, socketRooms |-> socketRooms,
     rooms |-> rooms, roomFiles |-> roomFiles, userActiveFiles |-> userActiveFiles,
     userSession |-> userSession, terminals |-> terminals,
     sharedWorkingDirectories |-> sharedWorkingDirectories,
     fileWatchers |-> fileWatchers, userRooms |-> userRooms,
     fileSyncInProgress |-> fileSyncInProgress, disk |-> disk,
     ptyExits |-> ptyExits, immediates |-> immediates, syncTimers |-> syncTimers,
     respawnTimers |-> respawnTimers, joinsAwaiting |-> joinsAwaiting,
     out |-> <<>>, hist |-> [op |-> "none"]]

Becomes(s) ==
    \E v \in {s} :
        /\ store' = v.store
        /\ connected' = v.connected
        /\ socketRooms' = v.socketRooms
        /\ rooms' = v.rooms
        /\ roomFiles' = v.roomFiles
        /\ userActiveFiles' = v.userActiveFiles
        /\ userSession' = v.userSession
        /\ terminals' = v.terminals
        /\ sharedWorkingDirectories' = v.sharedWorkingDirectories
        /\ fileWatchers' = v.fileWatchers
        /\ userRooms' = v.userRooms
        /\ fileSyncInProgress' = v.fileSyncInProgress
        /\ disk' = v.disk
        /\ ptyExits' = v.ptyExits
        /\ immediates' = v.immediates
        /\ syncTimers' = v.syncTimers
        /\ respawnTimers' = v.respawnTimers
        /\ joinsAwaiting' = v.joinsAwaiting
        /\ out' = v.out
        /\ hist' = v.hist

\* a step of the server itself.  The history of the last code-change survives
\* it (stage: "queued" until its deferred write has run, "ran" right after,
\* "done" from then on); that of a create-folder survives it when the step
\* changes neither a tree nor a working directory
Internal(s, ran) ==
    Becomes(IF hist.op = "code-change"
            THEN [s EXCEPT !.hist = [hist EXCEPT !.stage = IF ran THEN "ran"
                                                           ELSE IF @ = "queued" THEN @
                                                           ELSE "done"]]
            ELSE IF s.roomFiles = roomFiles /\ s.disk = disk
            THEN [s EXCEPT !.hist = hist]
            ELSE s)

(***************************************************************************)
(* socket.io delivery.  An emit is recorded with the sockets it reaches.   *)
(***************************************************************************)
\* io.to(x): the open sockets in socket.io room x (a socket is in the room of its own id)
ioTo(s, x) == {k \in s.connected : k = x \/ x \in s.socketRooms[k]}
\* socket.emit
socketEmit(s, u) == {u} \cap s.connected
\* every open socket in room x, the sender included
EveryoneIn(s, u, x) == ioTo(s, x)
\* socket.to(x)
socketTo(s, u, x) == ioTo(s, x) \ {u}

Emit(s, recipients, ev, data) ==
    [s EXCEPT !.out = Append(@, [ev |-> ev, to |-> recipients, data |-> data])]

(***************************************************************************)
(* The file system under compiler_<room> and the chokidar watcher on it.   *)
(* disk[r] maps a relative path to a file (with content) or a directory.   *)
(* fileWatchers[r].pw are the awaitWriteFinish polls (path -> event, ticks *)
(* of stability left), fileWatchers[r].ev the events raised and not yet    *)
(* handled (unlink, addDir, unlinkDir).                                    *)
(***************************************************************************)
FileEntry(c) == [type |-> "file", content |-> c]
DirEntry == [type |-> "dir"]
NewWatcher == [pw |-> EmptyMap, ev |-> <<>>]

Watching(s, r) == r \in DOMAIN s.fileWatchers
\* fs.existsSync; <<>> is the working directory itself
ExistsOnDisk(s, r, p) ==
    IF r \notin DOMAIN s.disk THEN FALSE
    ELSE IF p = <<>> THEN TRUE
    ELSE p \in DOMAIN s.disk[r]
IsFileOnDisk(s, r, p) ==
    IF ~ExistsOnDisk(s, r, p) \/ p = <<>> THEN FALSE
    ELSE s.disk[r][p].type = "file"
IsDirOnDisk(s, r, p) ==
    IF ~ExistsOnDisk(s, r, p) THEN FALSE
    ELSE IF p = <<>> THEN TRUE
    ELSE s.disk[r][p].type = "dir"

RaiseEvent(s, r, kind, p) ==
    IF Watching(s, r)
    THEN [s EXCEPT !.fileWatchers[r].ev = Append(@, [kind |-> kind, path |-> p])]
    ELSE s

\* the watcher sees a write to file p: start or restart the stability poll.
\* origin (history, not read by the program) tells who wrote during the poll:
\* "editor" (the server), "terminal" (a shell) or "both"
NoteWrite(s, r, p, existed, origin) ==
    IF ~Watching(s, r) THEN s
    ELSE LET pw == s.fileWatchers[r].pw
             kind == IF p \in DOMAIN pw THEN pw[p].kind
                     ELSE IF existed THEN "change" ELSE "add"
             by == IF p \in DOMAIN pw /\ pw[p].origin # origin THEN "both" ELSE origin
         IN  [s EXCEPT !.fileWatchers[r].pw =
                 Assign(pw, p, [kind |-> kind, left |-> StabilityTicks, origin |-> by])]

\* the watcher sees file p go away: a pending poll is cancelled, and a file whose
\* add was still pending goes without an unlink event
NoteUnlink(s, r, p) ==
    IF ~Watching(s, r) THEN s
    ELSE LET pw == s.fileWatchers[r].pw
         IN  IF p \in DOMAIN pw
             THEN LET s1 == [s EXCEPT !.fileWatchers[r].pw = Remove(pw, p)]
                  IN  IF pw[p].kind = "add" THEN s1 ELSE RaiseEvent(s1, r, "unlink", p)
             ELSE RaiseEvent(s, r, "unlink", p)

\* fs.mkdirSync(p, {recursive: true}) throws when p or an ancestor is a file
MkdirThrows(s, r, p) ==
    \/ r \notin DOMAIN s.disk
    \/ \E a \in Ancestors(p) \cup {p} : IsFileOnDisk(s, r, a)

RECURSIVE MkdirAll(_, _, _)
MkdirAll(s, r, need) ==
    IF need = {} THEN s
    ELSE LET a == CHOOSE x \in need : \A y \in need : Len(x) <= Len(y)
             s1 == [s EXCEPT !.disk[r] = Assign(@, a, DirEntry)]
         IN  MkdirAll(RaiseEvent(s1, r, "addDir", a), r, need \ {a})

\* fs.mkdirSync(p, {recursive: true}), when it does not throw
FsMkdirP(s, r, p) ==
    MkdirAll(s, r, {a \in Ancestors(p) \cup {p} : a # <<>> /\ ~ExistsOnDisk(s, r, a)})

\* fs.writeFileSync(p, content), p not a directory and its directory present
FsWriteFile(s, r, p, content) ==
    LET existed == IsFileOnDisk(s, r, p)
        s1 == [s EXCEPT !.disk[r] = Assign(@, p, FileEntry(content)),
                        !.out = Append(@, [ev |-> "fs.writeFileSync", to |-> {},
                                           data |-> [room |-> r, path |-> p]])]
    IN  NoteWrite(s1, r, p, existed, "editor")

RECURSIVE RemoveEntries(_, _, _)
\* remove the entries ps, deepest first
RemoveEntries(s, r, ps) ==
    IF ps = {} THEN s
    ELSE LET p == CHOOSE x \in ps : \A y \in ps : Len(y) <= Len(x)
             s1 == [s EXCEPT !.disk[r] = Remove(@, p)]
             s2 == IF s.disk[r][p].type = "file"
                   THEN NoteUnlink(s1, r, p)
                   ELSE RaiseEvent(s1, r, "unlinkDir", p)
         IN  RemoveEntries(s2, r, ps \ {p})

\* fs.unlinkSync(p) of a file, fs.rmSync(p, {recursive: true, force: true})
FsRemove(s, r, p) ==
    IF r \notin DOMAIN s.disk THEN s
    ELSE RemoveEntries(s, r, {q \in DOMAIN s.disk[r] : AtOrBelow(q, p)})

\* fs.renameSync(a, b) throws: no source, a directory onto a file or onto a
\* directory that is not empty, a file onto a directory, into itself
RenameThrows(s, r, a, b) ==
    \/ ~ExistsOnDisk(s, r, a)
    \/ ~IsDirOnDisk(s, r, Dirname(b))
    \/ StartsWith(b, a \o <<Slash>>)
    \/ /\ ExistsOnDisk(s, r, b)
       /\ b # a
       /\ \/ s.disk[r][a].type # s.disk[r][b].type
          \/ /\ s.disk[r][b].type = "dir"
             /\ \E q \in DOMAIN s.disk[r] : q # b /\ AtOrBelow(q, b)

RECURSIVE MoveEntries(_, _, _, _, _)
\* re-create under b what was at or below a, parents first
MoveEntries(s, r, a, b, old) ==
    LET ps == {q \in DOMAIN old : AtOrBelow(q, a) /\ (b \o SubSeq(q, Len(a) + 1, Len(q))) \notin DOMAIN s.disk[r]}
    IN  IF ps = {} THEN s
        ELSE LET p == CHOOSE x \in ps : \A y \in ps : Len(x) <= Len(y)
                 np == b \o SubSeq(p, Len(a) + 1, Len(p))
                 s1 == [s EXCEPT !.disk[r] = Assign(@, np, old[p])]
                 s2 == IF old[p].type = "file"
                       THEN NoteWrite(s1, r, np, FALSE, "editor")
                       ELSE RaiseEvent(s1, r, "addDir", np)
             IN  MoveEntries(s2, r, a, b, old)

\* fs.renameSync(a, b), when it does not throw: the watcher sees the old
\* entries go and the new ones come
FsRename(s, r, a, b) ==
    IF a = b THEN s
    ELSE LET old == s.disk[r]
             s1 == FsRemove(FsRemove(s, r, b), r, a)
         IN  MoveEntries(s1, r, a, b, old)

(***************************************************************************)
(* TerminalManager.                                                        *)
(***************************************************************************)
Token(origin, roomCode, path) == [origin |-> origin, room |-> roomCode, path |-> path]
TokenActive(s, key) == key \in DOMAIN s.fileSyncInProgress
\* fileSyncInProgress.add(syncKey) together with the setTimeout of the finally block
AddToken(s, key) == [s EXCEPT !.fileSyncInProgress = Assign(@, key, TokenTicks)]

\* roomFiles[roomCode][fileName]?.content || ''
ContentOrEmpty(s, roomCode, fileName) ==
    IF roomCode \in DOMAIN s.roomFiles /\ Has(s.roomFiles[roomCode], fileName)
       /\ "content" \in DOMAIN Get(s.roomFiles[roomCode], fileName)
    THEN Get(s.roomFiles[roomCode], fileName).content
    ELSE ""

\* if (!roomFiles[roomCode]) roomFiles[roomCode] = {}
EnsureRoomFiles(s, roomCode) ==
    IF roomCode \in DOMAIN s.roomFiles THEN s
    ELSE [s EXCEPT !.roomFiles = Assign(@, roomCode, <<>>)]

\* a files-update that carries the tree as it was when the handler started
EmitStale(s, roomCode) ==
    Emit(s, ioTo(s, roomCode), "files-update",
         IF roomCode \in DOMAIN roomFiles THEN roomFiles[roomCode] ELSE <<>>)

EmitFilesUpdate(s, roomCode) ==
    Emit(s, ioTo(s, roomCode), "files-update", s.roomFiles[roomCode])

syncFileFromTerminalToRoom(s, roomCode, fileName) ==
    LET syncKey == Token("terminal", roomCode, fileName)
    IN  IF TokenActive(s, syncKey) THEN s
        ELSE LET s1 == AddToken(s, syncKey)
             IN  IF ~IsFileOnDisk(s1, roomCode, fileName) THEN s1   \* readFileSync throws
                 ELSE LET content == s1.disk[roomCode][fileName].content
                          extension == OrTxt(ExtnameSlice(fileName))
                          s2 == EnsureRoomFiles(s1, roomCode)
                          currentContent == ContentOrEmpty(s2, roomCode, fileName)
                      IN  IF currentContent # content
                          THEN LET s3 == [s2 EXCEPT !.roomFiles[roomCode] =
                                              Put(@, fileName, FileNode(content, extension))]
                                   s4 == EmitFilesUpdate(s3, roomCode)
                               IN  Emit(s4, ioTo(s4, roomCode), "file-synced",
                                        [fileName |-> fileName, content |-> content])
                          ELSE s2

syncFolderFromTerminalToRoom(s, roomCode, folderPath) ==
    LET syncKey == Token("terminal-folder", roomCode, folderPath)
    IN  IF TokenActive(s, syncKey) THEN s
        ELSE LET s1 == EnsureRoomFiles(AddToken(s, syncKey), roomCode)
             IN  IF ~Has(s1.roomFiles[roomCode], folderPath)
                 THEN LET s2 == [s1 EXCEPT !.roomFiles[roomCode] = Put(@, folderPath, FolderNode)]
                          s3 == EmitFilesUpdate(s2, roomCode)
                      IN  Emit(s3, ioTo(s3, roomCode), "folder-created",
                               [folderPath |-> folderPath])
                 ELSE s1

RECURSIVE SwitchActive(_, _, _, _, _)
\* rooms[roomCode].forEach(userId => { if (<active file of userId is one of gone>) ... })
SwitchActive(s, roomCode, members, gone, newActiveFile) ==
    IF members = <<>> THEN s
    ELSE LET userId == Head(members)
             s1 == IF Lookup(s.userActiveFiles, userId) \in gone
                   THEN LET a == [s EXCEPT !.userActiveFiles = Assign(@, userId, newActiveFile)]
                            b == Emit(a, ioTo(a, userId), "file-content-update",
                                      [fileName |-> newActiveFile,
                                       content |-> Get(a.roomFiles[roomCode], newActiveFile).content])
                        IN  Emit(b, ioTo(b, userId), "active-file-changed",
                                 [fileName |-> newActiveFile])
                   ELSE s
         IN  SwitchActive(s1, roomCode, Tail(members), gone, newActiveFile)

removeFileFromRoomFiles(s, roomCode, fileName) ==
    IF roomCode \in DOMAIN s.roomFiles /\ Has(s.roomFiles[roomCode], fileName)
    THEN LET s1 == [s EXCEPT !.roomFiles[roomCode] = DeleteKeys(@, {fileName})]
             remainingFiles == FileKeys(s1.roomFiles[roomCode])
         IN  IF remainingFiles # <<>> /\ roomCode \notin DOMAIN s1.rooms
             THEN s1                \* rooms[roomCode].forEach throws a TypeError
             ELSE LET s2 == IF remainingFiles # <<>>
                            THEN SwitchActive(s1, roomCode, s1.rooms[roomCode],
                                              {fileName}, remainingFiles[1])
                            ELSE s1
                      s3 == EmitFilesUpdate(s2, roomCode)
                  IN  Emit(s3, ioTo(s3, roomCode), "item-deleted",
                           [itemPath |-> fileName, type |-> "file"])
    ELSE s

removeFolderFromRoomFiles(s, roomCode, folderPath) ==
    IF roomCode \in DOMAIN s.roomFiles
    THEN LET keysToDelete == KeysAtOrBelow(s.roomFiles[roomCode], folderPath)
             s1 == [s EXCEPT !.roomFiles[roomCode] = DeleteKeys(@, Range(keysToDelete))]
             s2 == EmitFilesUpdate(s1, roomCode)
         IN  Emit(s2, ioTo(s2, roomCode), "item-deleted",
                  [itemPath |-> folderPath, type |-> "folder"])
    ELSE s

createFolderInWorkingDir(s, roomCode, folderPath) ==
    IF roomCode \notin s.sharedWorkingDirectories THEN s
    ELSE IF ExistsOnDisk(s, roomCode, folderPath) \/ MkdirThrows(s, roomCode, folderPath) THEN s
    ELSE FsMkdirP(s, roomCode, folderPath)

writeFileToWorkingDir(s, roomCode, fileName, content) ==
    LET syncKey == Token("editor", roomCode, fileName)
    IN  IF TokenActive(s, syncKey) THEN s
        ELSE IF roomCode \notin s.sharedWorkingDirectories THEN s   \* token added and deleted
        ELSE LET s1 == AddToken(s, syncKey)
                 fileDir == Dirname(fileName)
             IN  IF ~ExistsOnDisk(s1, roomCode, fileDir) /\ MkdirThrows(s1, roomCode, fileDir)
                 THEN s1
                 ELSE LET s2 == IF ~ExistsOnDisk(s1, roomCode, fileDir)
                                THEN FsMkdirP(s1, roomCode, fileDir) ELSE s1
                          shouldWrite == IF ExistsOnDisk(s2, roomCode, fileName)
                                         THEN s2.disk[roomCode][fileName].content # content
                                         ELSE TRUE
                      IN  IF IsDirOnDisk(s2, roomCode, fileName) THEN s2   \* EISDIR
                          ELSE IF ~IsDirOnDisk(s2, roomCode, fileDir) THEN s2  \* ENOTDIR
                          ELSE IF shouldWrite THEN FsWriteFile(s2, roomCode, fileName, content)
                          ELSE s2

RECURSIVE SyncItems(_, _, _)
SyncItems(s, roomCode, items) ==
    IF items = <<>> THEN s
    ELSE LET itemPath == Head(items)
             itemData == Get(s.roomFiles[roomCode], itemPath)
             s1 == IF itemData.type = "file"
                   THEN writeFileToWorkingDir(s, roomCode, itemPath, itemData.content)
                   ELSE IF itemData.type = "folder"
                   THEN createFolderInWorkingDir(s, roomCode, itemPath)
                   ELSE s
         IN  SyncItems(s1, roomCode, Tail(items))

syncRoomFilesToWorkingDir(s, roomCode) ==
    IF roomCode \notin s.sharedWorkingDirectories \/ roomCode \notin DOMAIN s.roomFiles THEN s
    ELSE SyncItems(s, roomCode, ObjectKeys(s.roomFiles[roomCode]))

setupFileWatcher(s, roomCode) ==
    IF roomCode \in DOMAIN s.fileWatchers THEN s
    ELSE [s EXCEPT !.fileWatchers = Assign(@, roomCode, NewWatcher)]

\* the same message, emitted to the room of the session instead
TerminalOutputToRoom(s, target, userId, text) ==
    Emit(s, IF userId \in DOMAIN s.userRooms THEN ioTo(s, s.userRooms[userId])
            ELSE ioTo(s, target),
         "terminal-output", [pty |-> userId, text |-> text])

\* a terminal-output from the PTY session of userId, emitted to target
TerminalOutput(s, target, userId, text) ==
    Emit(s, ioTo(s, target), "terminal-output", [pty |-> userId, text |-> text])

initializeTerminal(s, roomCode, userId) ==
    IF userId \in DOMAIN s.terminals THEN s
    ELSE LET s1 == IF roomCode \in s.sharedWorkingDirectories THEN s
                   ELSE LET a == IF roomCode \in DOMAIN s.disk THEN s
                                 ELSE [s EXCEPT !.disk = Assign(@, roomCode, EmptyMap)]
                            b == [a EXCEPT !.sharedWorkingDirectories = @ \cup {roomCode}]
                        IN  setupFileWatcher(b, roomCode)
             s2 == [s1 EXCEPT !.userRooms = Assign(@, userId, roomCode),
                              !.terminals = Assign(@, userId, [room |-> roomCode])]
             s3 == TerminalOutput(s2, userId, userId, "welcome")
         IN  [s3 EXCEPT !.syncTimers = @ \cup {[room |-> roomCode, left |-> SyncTicks]}]

\* an exit after which nothing brings the shell back
onExitForGood(s, roomCode, userId) ==
    TerminalOutput([s EXCEPT !.terminals = Remove(@, userId)], userId, userId, "ended")

\* ptyProcess.onExit of the PTY that was spawned for (roomCode, userId)
onExit(s, roomCode, userId) ==
    LET s1 == [s EXCEPT !.terminals = Remove(@, userId)]
        s2 == TerminalOutput(s1, userId, userId, "ended")
    IN  [s2 EXCEPT !.respawnTimers =
             @ \cup {[room |-> roomCode, user |-> userId, left |-> RespawnTicks]}]

handleInput(s, userId) ==
    IF userId \notin DOMAIN s.terminals
    THEN TerminalOutput(s, userId, userId, "not-initialized")
    ELSE [s EXCEPT !.out = Append(@, [ev |-> "pty.write", to |-> {userId}, data |-> "input"])]

executeCommand(s, userId, command) ==
    IF userId \notin DOMAIN s.terminals
    THEN TerminalOutput(s, userId, userId, "not-initialized")
    ELSE [s EXCEPT !.out = Append(@, [ev |-> "pty.write", to |-> {userId}, data |-> command])]

\* the keys of runCommands, without their '.'
RunnableExts ==
    {ExtJs, ExtPy, <<"j", "a", "v", "a">>, <<"c", "p", "p">>, <<"c">>, <<"g", "o">>,
     <<"r", "s">>, <<"p", "h", "p">>, <<"r", "b">>, <<"s", "h">>, <<"p", "s", "1">>}

runFile(s, userId, fileName) ==
    IF userId \notin DOMAIN s.userRooms
       \/ s.userRooms[userId] \notin s.sharedWorkingDirectories
    THEN TerminalOutput(s, userId, userId, "no-working-directory")
        ELSE IF ExtnameSlice(fileName) \in RunnableExts
        THEN executeCommand(s, userId, "run")
        ELSE TerminalOutput(s, userId, userId, "unsupported")

cleanupUser(s, userId) ==
    LET s1 == IF userId \in DOMAIN s.terminals
              THEN [s EXCEPT !.ptyExits = @ \cup {[room |-> s.terminals[userId].room, user |-> userId]},
                             !.terminals = Remove(@, userId)]
              ELSE s
    IN  [s1 EXCEPT !.userRooms = Remove(@, userId)]

RECURSIVE CleanupUsers(_, _)
CleanupUsers(s, us) ==
    IF us = {} THEN s
    ELSE LET u == CHOOSE x \in us : TRUE
         IN  CleanupUsers(cleanupUser(s, u), us \ {u})

cleanupRoom(s, roomCode) ==
    LET s1 == [s EXCEPT !.fileWatchers = Remove(@, roomCode)]
        s2 == IF roomCode \in s1.sharedWorkingDirectories /\ roomCode \in DOMAIN s1.disk
              THEN [s1 EXCEPT !.disk = Remove(@, roomCode)]
              ELSE s1
        s3 == [s2 EXCEPT !.sharedWorkingDirectories = @ \ {roomCode}]
    IN  CleanupUsers(s3, {u \in DOMAIN s3.userRooms : s3.userRooms[u] = roomCode})

(***************************************************************************)
(* Array.prototype.sort() on strings: by character code.                   *)
(***************************************************************************)
Alphabet == <<".", "/", "0", "1", "2", "3", "4", "5", "6", "7", "8", "9",
              "a", "b", "c", "d", "e", "f", "g", "h", "i", "j", "k", "l", "m",
              "n", "o", "p", "q", "r", "s", "t", "u", "v", "w", "x", "y", "z">>
CharRank(c) == CHOOSE i \in 1..Len(Alphabet) : Alphabet[i] = c

RECURSIVE StrLess(_, _)
StrLess(a, b) ==
    IF a = <<>> THEN b # <<>>
    ELSE IF b = <<>> THEN FALSE
    ELSE IF a[1] = b[1] THEN StrLess(Tail(a), Tail(b))
    ELSE CharRank(a[1]) < CharRank(b[1])

RECURSIVE SortStrings(_)
SortStrings(S) ==
    IF S = {} THEN <<>>
    ELSE LET m == CHOOSE x \in S : \A y \in S : x = y \/ StrLess(x, y)
         IN  <<m>> \o SortStrings(S \ {m})

(***************************************************************************)
(* The room store (roomModel) and bcrypt.                                  *)
(***************************************************************************)
bcryptHash(password) == <<"bcrypt", password>>
\* a comparison that accepts every password
AnyPassword(password, hash) == TRUE
bcryptCompare(password, hash) == hash = bcryptHash(password)

(***************************************************************************)
(* Gateway: connection, create-room, join-room, disconnect.                *)
(* create-room and join-room touch no state before their awaits (store,    *)
(* bcrypt) have returned; the actions are the handlers from there on.      *)
(***************************************************************************)
Ack(s, u, data) == Emit(s, socketEmit(s, u), "ack", data)
FileError(s, u, message) == Emit(s, socketEmit(s, u), "file-error", [message |-> message])
SocketJoin(s, u, roomCode) == [s EXCEPT !.socketRooms[u] = @ \cup {roomCode}]

Connect(u) ==
    /\ u \notin DOMAIN socketRooms
    /\ Becomes([Cur EXCEPT !.connected = @ \cup {u},
                           !.socketRooms = Assign(@, u, {})])

\* socket.on('create-room'), from the reply of newRoom.save() on
CreateRoom(u, roomCode, password) ==
    /\ u \in connected
    /\ IF roomCode \in DOMAIN store
       THEN Becomes(Ack(Cur, u, [success |-> FALSE, error |-> "Failed to create room"]))
       ELSE LET s1 == [Cur EXCEPT !.store = Assign(@, roomCode, bcryptHash(password)),
                                  !.rooms = Assign(@, roomCode, <<u>>),
                                  !.roomFiles = Assign(@, roomCode, getDefaultFiles),
                                  !.userActiveFiles = Assign(@, u, MainJs)]
                s2 == SocketJoin(s1, u, roomCode)
                s3 == Emit(s2, socketEmit(s2, u), "room-created", [roomCode |-> roomCode])
                s4 == Emit(s3, socketEmit(s3, u), "files-update", s3.roomFiles[roomCode])
                s5 == Emit(s4, socketEmit(s4, u), "file-content-update",
                           [fileName |-> MainJs,
                            content |-> Get(s4.roomFiles[roomCode], MainJs).content])
                s6 == Emit(s5, socketEmit(s5, u), "active-file-changed", [fileName |-> MainJs])
                s7 == initializeTerminal(s6, roomCode, u)
            IN  Becomes(Ack(s7, u, [success |-> TRUE, roomCode |-> roomCode]))

\* the join-room handler from the replies of findOne and bcrypt.compare on
joinRoom(s, u, roomCode, password) ==
    IF roomCode \notin DOMAIN s.store
    THEN Ack(s, u, [success |-> FALSE, error |-> "Room not found"])
    ELSE IF ~bcryptCompare(password, s.store[roomCode])
    THEN Ack(s, u, [success |-> FALSE, error |-> "Invalid password"])
    ELSE LET s1 == [s EXCEPT !.userSession = Assign(@, u, roomCode)]
             s2 == IF roomCode \in DOMAIN s1.rooms THEN s1
                   ELSE [s1 EXCEPT !.rooms = Assign(@, roomCode, <<>>),
                                   !.roomFiles = Assign(@, roomCode, getDefaultFiles)]
         IN  IF Includes(s2.rooms[roomCode], u)
             THEN Ack(s2, u, [success |-> TRUE])
             ELSE LET s3 == SocketJoin([s2 EXCEPT !.rooms[roomCode] = Append(@, u)],
                                       u, roomCode)
                      fileKeys == FileKeys(s3.roomFiles[roomCode])
                      firstFile == IF fileKeys = <<>> THEN Undefined ELSE fileKeys[1]
                      s4 == [s3 EXCEPT !.userActiveFiles = Assign(@, u, firstFile)]
                      s5 == initializeTerminal(s4, roomCode, u)
                      s6 == Emit(s5, socketTo(s5, u, roomCode), "user-joined", [userId |-> u])
                  IN  Ack(s6, u, [success |-> TRUE,
                                  files |-> s6.roomFiles[roomCode],
                                  activeFile |-> firstFile])

\* socket.on('join-room') when nothing else runs between its arrival and the
\* replies of findOne and bcrypt.compare
JoinRoom(u, roomCode, password) ==
    /\ u \in connected
    /\ Becomes(joinRoom(Cur, u, roomCode, password))

\* socket.on('join-room') up to await roomModel.findOne: the handler is suspended
JoinRoomAwait(u, roomCode, password) ==
    /\ u \in connected
    /\ Becomes([Cur EXCEPT !.joinsAwaiting =
                   @ \cup {[user |-> u, room |-> roomCode, password |-> password]}])

\* the suspended join-room handler x goes on after await bcrypt.compare
JoinRoomResume(x) ==
    /\ x \in joinsAwaiting
    /\ Becomes(joinRoom([Cur EXCEPT !.joinsAwaiting = @ \ {x}], x.user, x.room, x.password))

RECURSIVE LeaveRooms(_, _, _)
\* for (const roomCode in rooms) { ... }
LeaveRooms(s, u, codes) ==
    IF codes = {} THEN s
    ELSE LET roomCode == CHOOSE c \in codes : TRUE
             s1 == IF u \in Range(s.rooms[roomCode])
                   THEN LET a == [s EXCEPT !.rooms[roomCode] = SeqFilter(@, Range(@) \ {u})]
                            b == Emit(a, socketTo(a, u, roomCode), "user-left", [userId |-> u])
                        IN  IF b.rooms[roomCode] = <<>>
                            THEN LET c == cleanupRoom(b, roomCode)
                                 IN  [c EXCEPT !.rooms = Remove(@, roomCode),
                                               !.roomFiles = Remove(@, roomCode)]
                            ELSE b
                   ELSE s
         IN  LeaveRooms(s1, u, codes \ {roomCode})

\* socket.on('disconnect'); the socket has left its socket.io rooms by then
Disconnect(u) ==
    /\ u \in connected
    /\ LET s1 == [Cur EXCEPT !.connected = @ \ {u},
                             !.socketRooms[u] = {},
                             !.userSession = Remove(@, u)]
           s2 == cleanupUser(s1, u)
           s3 == LeaveRooms(s2, u, DOMAIN s2.rooms)
       IN  Becomes([s3 EXCEPT !.userActiveFiles = Remove(@, u)])

(***************************************************************************)
(* Gateway: file management events.  No handler looks at the membership of *)
(* the sender: roomCode is whatever the client sent.                       *)
(***************************************************************************)
TreeOf(s, roomCode) == s.roomFiles[roomCode]
HasItem(s, roomCode, p) == roomCode \in DOMAIN s.roomFiles /\ Has(s.roomFiles[roomCode], p)
IsFileItem(s, roomCode, p) == HasItem(s, roomCode, p) /\ Get(s.roomFiles[roomCode], p).type = "file"

\* socket.on('create-file')
CreateFile(u, roomCode, fileName, parentFolder) ==
    /\ u \in connected
    /\ IF roomCode \in DOMAIN roomFiles THEN Len(roomFiles[roomCode]) < MaxNodes ELSE TRUE
    /\ LET s1 == EnsureRoomFiles(Cur, roomCode)
           fullPath == JoinPath(parentFolder, fileName)
       IN  IF Has(TreeOf(s1, roomCode), fullPath)
           THEN Becomes(FileError(s1, u, "File already exists"))
           ELSE LET extension == OrTxt(SplitPop(fileName))
                    s2 == [s1 EXCEPT !.roomFiles[roomCode] =
                              Put(@, fullPath, FileNode(getDefaultContent(extension), extension))]
                    s3 == writeFileToWorkingDir(s2, roomCode, fullPath,
                                                Get(TreeOf(s2, roomCode), fullPath).content)
                    s4 == EmitFilesUpdate(s3, roomCode)
                IN  Becomes(Emit(s4, ioTo(s4, roomCode), "file-created", [fileName |-> fullPath]))

\* socket.on('create-folder')
CreateFolder(u, roomCode, folderName, parentFolder) ==
    /\ u \in connected
    /\ IF roomCode \in DOMAIN roomFiles THEN Len(roomFiles[roomCode]) < MaxNodes ELSE TRUE
    /\ LET s1 == EnsureRoomFiles(Cur, roomCode)
           fullPath == JoinPath(parentFolder, folderName)
       IN  IF Has(TreeOf(s1, roomCode), fullPath)
           THEN Becomes(FileError(s1, u, "Folder already exists"))
           ELSE LET s2 == [s1 EXCEPT !.roomFiles[roomCode] = Put(@, fullPath, FolderNode)]
                    s3 == createFolderInWorkingDir(s2, roomCode, fullPath)
                    s4 == EmitFilesUpdate(s3, roomCode)
                    s5 == Emit(s4, ioTo(s4, roomCode), "folder-created", [folderPath |-> fullPath])
                IN  Becomes([s5 EXCEPT !.hist =
                                [op |-> "create-folder", room |-> roomCode, path |-> fullPath,
                                 hadTree |-> roomCode \in DOMAIN roomFiles,
                                 tree |-> Lookup(roomFiles, roomCode),
                                 hadDir |-> roomCode \in DOMAIN disk,
                                 dir |-> Lookup(disk, roomCode)]])

RECURSIVE RemoveItems(_, _, _)
\* itemsToDelete.forEach(item => { ... fs.rmSync / fs.unlinkSync ... })
RemoveItems(s, roomCode, items) ==
    IF items = <<>> THEN s
    ELSE RemoveItems(FsRemove(s, roomCode, Head(items)), roomCode, Tail(items))

\* the same check with the bound one lower
NoFile(obj) == Len(FileKeys(obj)) < 1

\* fileKeys.length <= 1
LastFile(obj) == Len(FileKeys(obj)) <= 1

\* socket.on('delete-item')
DeleteItem(u, roomCode, itemPath) ==
    /\ u \in connected
    /\ IF ~HasItem(Cur, roomCode, itemPath)
       THEN Becomes(FileError(Cur, u, "Item not found"))
       ELSE LET itemType == Get(roomFiles[roomCode], itemPath).type
            IN  IF itemType = "file" /\ LastFile(roomFiles[roomCode])
                THEN Becomes(FileError(Cur, u, "Cannot delete the last file"))
                ELSE LET itemsToDelete == IF itemType = "folder"
                                          THEN KeysAtOrBelow(roomFiles[roomCode], itemPath)
                                          ELSE <<itemPath>>
                         s1 == IF roomCode \in sharedWorkingDirectories
                               THEN RemoveItems(Cur, roomCode, itemsToDelete)
                               ELSE Cur
                         s2 == [s1 EXCEPT !.roomFiles[roomCode] = DeleteKeys(@, Range(itemsToDelete))]
                         remainingFiles == FileKeys(TreeOf(s2, roomCode))
                         switch == /\ \/ itemType = "file"
                                      \/ Lookup(userActiveFiles, u) \in Range(itemsToDelete)
                                   /\ remainingFiles # <<>>
                         s3 == IF switch /\ roomCode \in DOMAIN rooms
                               THEN SwitchActive(s2, roomCode, rooms[roomCode],
                                                 Range(itemsToDelete), remainingFiles[1])
                               ELSE s2
                         s4 == EmitFilesUpdate(s3, roomCode)
                         s5 == Emit(s4, ioTo(s4, roomCode), "item-deleted",
                                    [itemPath |-> itemPath, type |-> itemType])
                         s6 == IF switch /\ roomCode \notin DOMAIN rooms
                               THEN s2      \* rooms[roomCode].forEach throws a TypeError
                               ELSE s5
                     IN  Becomes([s6 EXCEPT !.hist =
                                     IF hist.op = "create-folder" /\ hist.room = roomCode
                                        /\ hist.path = itemPath
                                     THEN [hist EXCEPT !.op = "create-delete"]
                                     ELSE [op |-> "none"]])

\* a rename that leaves every active file where it was
NoFollow(s, members, from, to) == s

RECURSIVE FollowActive(_, _, _, _)
\* rooms[roomCode].forEach(userId => { if (userActiveFiles[userId] === from) ... })
FollowActive(s, members, from, to) ==
    IF members = <<>> THEN s
    ELSE LET userId == Head(members)
             s1 == IF Lookup(s.userActiveFiles, userId) = from
                   THEN LET a == [s EXCEPT !.userActiveFiles = Assign(@, userId, to)]
                        IN  Emit(a, ioTo(a, userId), "active-file-changed", [fileName |-> to])
                   ELSE s
         IN  FollowActive(s1, Tail(members), from, to)

RECURSIVE CopyItems(_, _, _, _, _)
\* itemsToRename.forEach(itemPath => { roomFiles[roomCode][newItemPath] = {...}; ... })
CopyItems(s, roomCode, items, oldPath, newPath) ==
    IF items = <<>> THEN s
    ELSE LET itemPath == Head(items)
             relativePath == IF itemPath = oldPath THEN <<>>
                             ELSE SubSeq(itemPath, Len(oldPath) + 2, Len(itemPath))
             newItemPath == IF relativePath # <<>> THEN newPath \o <<Slash>> \o relativePath
                            ELSE newPath
             s1 == [s EXCEPT !.roomFiles[roomCode] =
                       Put(@, newItemPath, Get(TreeOf(s, roomCode), itemPath))]
             s2 == FollowActive(s1, s1.rooms[roomCode], itemPath, newItemPath)
         IN  CopyItems(s2, roomCode, Tail(items), oldPath, newPath)

\* the folder branch of rename-item and move-item
RekeyFolder(s, roomCode, oldPath, newPath) ==
    LET items == SortStrings(Range(KeysAtOrBelow(TreeOf(s, roomCode), oldPath)))
        s1 == CopyItems(s, roomCode, items, oldPath, newPath)
    IN  [s1 EXCEPT !.roomFiles[roomCode] = DeleteKeys(@, Range(items))]

\* the file branch of rename-item (newExt TRUE) and move-item (newExt FALSE)
RekeyFile(s, roomCode, oldPath, newPath, newExt) ==
    LET node == Get(TreeOf(s, roomCode), oldPath)
        copy == IF newExt THEN [node EXCEPT !.extension = OrTxt(SplitPop(newPath))] ELSE node
        s1 == [s EXCEPT !.roomFiles[roomCode] = Put(@, newPath, copy)]
        s2 == [s1 EXCEPT !.roomFiles[roomCode] = DeleteKeys(@, {oldPath})]
    IN  FollowActive(s2, s2.rooms[roomCode], oldPath, newPath)

\* a working directory in which no rename is attempted
RenameSkipped(s, roomCode, from, to) == [ok |-> TRUE, s |-> s]

\* the try block that renames in the working directory; ok = it did not throw
RenameOnDisk(s, roomCode, from, to) ==
    IF roomCode \notin s.sharedWorkingDirectories \/ ~ExistsOnDisk(s, roomCode, from)
    THEN [ok |-> TRUE, s |-> s]
    ELSE LET dir == Dirname(to)
         IN  IF ~ExistsOnDisk(s, roomCode, dir) /\ MkdirThrows(s, roomCode, dir)
             THEN [ok |-> FALSE, s |-> s]
             ELSE LET s1 == IF ~ExistsOnDisk(s, roomCode, dir)
                            THEN FsMkdirP(s, roomCode, dir) ELSE s
                  IN  IF RenameThrows(s1, roomCode, from, to)
                      THEN [ok |-> FALSE, s |-> s1]
                      ELSE [ok |-> TRUE, s |-> FsRename(s1, roomCode, from, to)]

\* socket.on('rename-item')
RenameItem(u, roomCode, oldPath, newPath) ==
    /\ u \in connected
    /\ IF ~HasItem(Cur, roomCode, oldPath)
       THEN Becomes(FileError(Cur, u, "Item not found"))
       ELSE IF Has(roomFiles[roomCode], newPath)
       THEN Becomes(FileError(Cur, u, "Item with new name already exists"))
       ELSE LET itemType == Get(roomFiles[roomCode], oldPath).type
                r == RenameOnDisk(Cur, roomCode, oldPath, newPath)
            IN  IF ~r.ok
                THEN Becomes(FileError(r.s, u, "Failed to rename item in working directory"))
                ELSE IF roomCode \notin DOMAIN rooms
                THEN \* rooms[roomCode].forEach throws a TypeError after the first copy
                     Becomes(IF itemType = "folder"
                             THEN [r.s EXCEPT !.roomFiles[roomCode] =
                                      Put(@, newPath, Get(roomFiles[roomCode], oldPath))]
                             ELSE [r.s EXCEPT !.roomFiles[roomCode] =
                                      DeleteKeys(Put(@, newPath,
                                          [Get(roomFiles[roomCode], oldPath) EXCEPT
                                              !.extension = OrTxt(SplitPop(newPath))]), {oldPath})])
                ELSE LET s1 == IF itemType = "folder"
                               THEN RekeyFolder(r.s, roomCode, oldPath, newPath)
                               ELSE RekeyFile(r.s, roomCode, oldPath, newPath, TRUE)
                         s2 == EmitFilesUpdate(s1, roomCode)
                         s3 == Emit(s2, ioTo(s2, roomCode), "item-renamed",
                                    [oldPath |-> oldPath, newPath |-> newPath,
                                     type |-> itemType])
                     IN  Becomes([s3 EXCEPT !.hist =
                                     IF hist.op = "rename-item" /\ hist.room = roomCode
                                        /\ hist.from = newPath /\ hist.to = oldPath
                                     THEN [hist EXCEPT !.op = "rename-back"]
                                     ELSE [op |-> "rename-item", room |-> roomCode,
                                           from |-> oldPath, to |-> newPath,
                                           tree |-> roomFiles[roomCode]]])

\* socket.on('move-item'); itemType is what the client sent
MoveItem(u, roomCode, sourcePath, targetPath, itemType) ==
    /\ u \in connected
    /\ IF ~HasItem(Cur, roomCode, sourcePath)
       THEN Becomes(FileError(Cur, u, "Source item not found"))
       ELSE IF itemType = "folder" /\ StartsWith(targetPath, sourcePath \o <<Slash>>)
       THEN Becomes(FileError(Cur, u, "Cannot move a folder into itself"))
       ELSE IF Has(roomFiles[roomCode], targetPath)
       THEN Becomes(FileError(Cur, u, "Target location already exists"))
       ELSE LET r == RenameOnDisk(Cur, roomCode, sourcePath, targetPath)
            IN  IF ~r.ok
                THEN Becomes(FileError(r.s, u, "Failed to move item in working directory"))
                ELSE IF roomCode \notin DOMAIN rooms
                THEN \* rooms[roomCode].forEach throws a TypeError after the first copy
                     Becomes(IF itemType = "folder"
                             THEN [r.s EXCEPT !.roomFiles[roomCode] =
                                      Put(@, targetPath, Get(roomFiles[roomCode], sourcePath))]
                             ELSE [r.s EXCEPT !.roomFiles[roomCode] =
                                      DeleteKeys(Put(@, targetPath,
                                          Get(roomFiles[roomCode], sourcePath)), {sourcePath})])
                ELSE LET s1 == IF itemType = "folder"
                               THEN RekeyFolder(r.s, roomCode, sourcePath, targetPath)
                               ELSE RekeyFile(r.s, roomCode, sourcePath, targetPath, FALSE)
                         s2 == EmitFilesUpdate(s1, roomCode)
                     IN  Becomes(Emit(s2, ioTo(s2, roomCode), "item-moved",
                                      [sourcePath |-> sourcePath, targetPath |-> targetPath,
                                       itemType |-> itemType]))

\* socket.on('toggle-folder')
ToggleFolder(u, roomCode, folderPath) ==
    /\ u \in connected
    /\ IF ~HasItem(Cur, roomCode, folderPath)
          \/ Get(roomFiles[roomCode], folderPath).type # "folder"
       THEN Becomes(FileError(Cur, u, "Folder not found"))
       ELSE LET node == Get(roomFiles[roomCode], folderPath)
                s1 == [Cur EXCEPT !.roomFiles[roomCode] =
                          Put(@, folderPath, [node EXCEPT !.isExpanded = ~@])]
                s2 == EmitFilesUpdate(s1, roomCode)
            IN  Becomes(Emit(s2, ioTo(s2, roomCode), "folder-toggled",
                             [folderPath |-> folderPath, isExpanded |-> ~node.isExpanded]))

\* socket.on('switch-file')
SwitchFile(u, roomCode, fileName) ==
    /\ u \in connected
    /\ IF ~IsFileItem(Cur, roomCode, fileName)
       THEN Becomes(FileError(Cur, u, "File not found"))
       ELSE LET s1 == [Cur EXCEPT !.userActiveFiles = Assign(@, u, fileName)]
                s2 == Emit(s1, socketEmit(s1, u), "file-content-update",
                           [fileName |-> fileName,
                            content |-> Get(roomFiles[roomCode], fileName).content])
            IN  Becomes(Emit(s2, socketEmit(s2, u), "active-file-changed",
                             [fileName |-> fileName]))

\* socket.on('code-change'); fileName <<>> is a request without fileName
CodeChange(u, roomCode, code, fileName) ==
    /\ u \in connected
    /\ Len(immediates) < MaxImmediates
    /\ LET targetFileName == IF fileName # <<>> THEN fileName
                             ELSE Lookup(userActiveFiles, u)
       IN  IF targetFileName = Undefined \/ targetFileName = <<>>
              \/ ~IsFileItem(Cur, roomCode, targetFileName)
           THEN Becomes(Cur)
           ELSE LET node == Get(roomFiles[roomCode], targetFileName)
                    s1 == [Cur EXCEPT !.roomFiles[roomCode] =
                              Put(@, targetFileName, [node EXCEPT !.content = code]),
                                      !.immediates = Append(@, [room |-> roomCode,
                                                                file |-> targetFileName,
                                                                code |-> code]),
                                      !.hist = [op |-> "code-change", user |-> u,
                                                room |-> roomCode, file |-> targetFileName,
                                                code |-> code, stage |-> "queued",
                                                prev |-> IF hist.op = "code-change"
                                                            /\ hist.user = u
                                                            /\ hist.room = roomCode
                                                            /\ hist.file = targetFileName
                                                         THEN <<hist.code>> ELSE <<>>]]
                IN  Becomes(Emit(s1, socketTo(s1, u, roomCode), "code-update",
                                 [code |-> code, fileName |-> targetFileName, fromUser |-> u]))

(***************************************************************************)
(* Gateway: terminal events.                                               *)
(***************************************************************************)
\* socket.on('terminal-init')
TerminalInit(u, roomCode) ==
    /\ u \in connected
    /\ Becomes(initializeTerminal(Cur, roomCode, u))

\* socket.on('terminal-input')
TerminalInput(u) ==
    /\ u \in connected
    /\ Becomes(handleInput(Cur, u))

\* socket.on('execute-command'), socket.on('clear-terminal')
ExecuteCommand(u) ==
    /\ u \in connected
    /\ Becomes(executeCommand(Cur, u, "command"))

\* a Ctrl+C that goes to every PTY there is
KillEveryPty(u) ==
    /\ u \in connected
    /\ Becomes(IF terminals # EmptyMap
               THEN [Cur EXCEPT !.out = Append(@, [ev |-> "pty.write", to |-> DOMAIN terminals,
                                                   data |-> "ctrl-c"])]
               ELSE Cur)

\* socket.on('kill-process')
KillProcess(u) ==
    /\ u \in connected
    /\ Becomes(IF u \in DOMAIN terminals
               THEN [Cur EXCEPT !.out = Append(@, [ev |-> "pty.write", to |-> {u},
                                                   data |-> "ctrl-c"])]
               ELSE Cur)

\* socket.on('run-file')
RunFile(u, roomCode, fileName) ==
    /\ u \in connected
    /\ IF IsFileItem(Cur, roomCode, fileName)
       THEN LET s1 == writeFileToWorkingDir(Cur, roomCode, fileName,
                                            Get(roomFiles[roomCode], fileName).content)
            IN  Becomes(runFile(s1, u, fileName))
       ELSE Becomes(TerminalOutput(Cur, u, u, "file-not-found"))

\* socket.on('save-and-run'); fileName <<>> is a request without fileName
SaveAndRun(u, roomCode, fileName) ==
    /\ u \in connected
    /\ LET targetFileName == IF fileName # <<>> THEN fileName
                             ELSE Lookup(userActiveFiles, u)
       IN  IF targetFileName # Undefined /\ targetFileName # <<>>
              /\ IsFileItem(Cur, roomCode, targetFileName)
           THEN LET s1 == writeFileToWorkingDir(Cur, roomCode, targetFileName,
                              Get(roomFiles[roomCode], targetFileName).content)
                IN  Becomes(runFile(s1, u, targetFileName))
           ELSE Becomes(Cur)

(***************************************************************************)
(* The PTY processes: a shell prints, exits, and changes its working       *)
(* directory's content.                                                    *)
(***************************************************************************)
\* ptyProcess.onData
PtyData(u) ==
    /\ u \in DOMAIN terminals
    /\ Becomes(TerminalOutput(Cur, u, u, "data"))

\* the shell of u exits by itself: ptyProcess.onExit
PtyExit(u) ==
    /\ u \in DOMAIN terminals
    /\ Becomes(onExit(Cur, terminals[u].room, u))

\* ptyProcess.onExit of a PTY that cleanupUser killed
KilledPtyExit(x) ==
    /\ x \in ptyExits
    /\ Internal(onExit([Cur EXCEPT !.ptyExits = @ \ {x}], x.room, x.user), FALSE)

ShellCwd(u) == terminals[u].room

\* room for one more watcher event of the working directory of u's shell
EventRoom(u) ==
    IF ShellCwd(u) \in DOMAIN fileWatchers
    THEN Len(fileWatchers[ShellCwd(u)].ev) < MaxEvents
    ELSE TRUE

\* the shell of u writes content to file p of its working directory
ShellWrite(u, p, content) ==
    /\ u \in DOMAIN terminals
    /\ ShellCwd(u) \in DOMAIN disk
    /\ IsDirOnDisk(Cur, ShellCwd(u), Dirname(p))
    /\ ~IsDirOnDisk(Cur, ShellCwd(u), p)
    /\ IF p \in DOMAIN disk[ShellCwd(u)] THEN TRUE
       ELSE Cardinality(DOMAIN disk[ShellCwd(u)]) < MaxDiskEntries
    /\ LET r == ShellCwd(u)
           existed == IsFileOnDisk(Cur, r, p)
           s1 == [Cur EXCEPT !.disk[r] = Assign(@, p, FileEntry(content))]
       IN  Becomes(NoteWrite(s1, r, p, existed, "terminal"))

\* the shell of u removes p (rm -r)
ShellRemove(u, p) ==
    /\ u \in DOMAIN terminals
    /\ ShellCwd(u) \in DOMAIN disk
    /\ p \in DOMAIN disk[ShellCwd(u)]
    /\ EventRoom(u)
    /\ Becomes(FsRemove(Cur, ShellCwd(u), p))

\* the shell of u makes directory p (mkdir -p)
ShellMkdir(u, p) ==
    /\ u \in DOMAIN terminals
    /\ ShellCwd(u) \in DOMAIN disk
    /\ ~ExistsOnDisk(Cur, ShellCwd(u), p)
    /\ ~MkdirThrows(Cur, ShellCwd(u), p)
    /\ Cardinality(DOMAIN disk[ShellCwd(u)]) < MaxDiskEntries
    /\ EventRoom(u)
    /\ Becomes(FsMkdirP(Cur, ShellCwd(u), p))

(***************************************************************************)
(* The watcher's callbacks, setImmediate and the timers.                   *)
(***************************************************************************)
\* watcher.on('unlink' | 'addDir' | 'unlinkDir')
WatcherEvent(roomCode) ==
    /\ roomCode \in DOMAIN fileWatchers
    /\ fileWatchers[roomCode].ev # <<>>
    /\ LET e == Head(fileWatchers[roomCode].ev)
           s1 == [Cur EXCEPT !.fileWatchers[roomCode].ev = Tail(@)]
       IN  Internal(IF e.kind = "unlink" THEN removeFileFromRoomFiles(s1, roomCode, e.path)
                    ELSE IF e.kind = "addDir"
                    THEN syncFolderFromTerminalToRoom(s1, roomCode, e.path)
                    ELSE removeFolderFromRoomFiles(s1, roomCode, e.path), FALSE)

\* watcher.on('add' | 'change'): the file has been stable for stabilityThreshold
WatcherWriteFinish(roomCode, p) ==
    /\ roomCode \in DOMAIN fileWatchers
    /\ p \in DOMAIN fileWatchers[roomCode].pw
    /\ fileWatchers[roomCode].pw[p].left = 0
    /\ LET s1 == [Cur EXCEPT !.fileWatchers[roomCode].pw = Remove(@, p)]
       IN  Internal(syncFileFromTerminalToRoom(s1, roomCode, p), FALSE)

\* setImmediate(() => terminalManager.writeFileToWorkingDir(...))
RunImmediate ==
    /\ immediates # <<>>
    /\ LET w == Head(immediates)
           s1 == [Cur EXCEPT !.immediates = Tail(@)]
       IN  Internal(writeFileToWorkingDir(s1, w.room, w.file, w.code), TRUE)

\* a timer whose callback leaves the token in the set
TokenKept(key) ==
    /\ key \in DOMAIN fileSyncInProgress
    /\ immediates = <<>>
    /\ fileSyncInProgress[key] = 0
    /\ Internal(Cur, FALSE)

\* A timer's callback runs in the timers phase of the event loop, after the
\* setImmediate callbacks that the handlers before it have queued.
\* setTimeout(() => this.fileSyncInProgress.delete(syncKey), 300)
TokenExpire(key) ==
    /\ key \in DOMAIN fileSyncInProgress
    /\ immediates = <<>>
    /\ fileSyncInProgress[key] = 0
    /\ Internal([Cur EXCEPT !.fileSyncInProgress = Remove(@, key)], FALSE)

\* setTimeout(() => this.syncRoomFilesToWorkingDir(roomCode), 500)
SyncTimerFire(t) ==
    /\ t \in syncTimers
    /\ immediates = <<>>
    /\ t.left = 0
    /\ Internal(syncRoomFilesToWorkingDir([Cur EXCEPT !.syncTimers = @ \ {t}], t.room), FALSE)

\* setTimeout(() => this.initializeTerminal(roomCode, userId), 1000)
RespawnTimerFire(t) ==
    /\ t \in respawnTimers
    /\ immediates = <<>>
    /\ t.left = 0
    /\ Internal(initializeTerminal([Cur EXCEPT !.respawnTimers = @ \ {t}], t.room, t.user), FALSE)

\* nothing is due: callbacks that are ready run before time advances
NothingDue ==
    /\ immediates = <<>>
    /\ ptyExits = {}
    /\ \A k \in DOMAIN fileSyncInProgress : fileSyncInProgress[k] > 0
    /\ \A t \in syncTimers \cup respawnTimers : t.left > 0
    /\ \A r \in DOMAIN fileWatchers :
          /\ fileWatchers[r].ev = <<>>
          /\ \A p \in DOMAIN fileWatchers[r].pw : fileWatchers[r].pw[p].left > 0

SomethingPending ==
    \/ DOMAIN fileSyncInProgress # {}
    \/ syncTimers \cup respawnTimers # {}
    \/ \E r \in DOMAIN fileWatchers : DOMAIN fileWatchers[r].pw # {}

\* TickMs milliseconds pass
Tick ==
    /\ NothingDue
    /\ SomethingPending
    /\ Internal([Cur EXCEPT
          !.fileSyncInProgress = [k \in DOMAIN @ |-> @[k] - 1],
          !.syncTimers = {[t EXCEPT !.left = @ - 1] : t \in @},
          !.respawnTimers = {[t EXCEPT !.left = @ - 1] : t \in @},
          !.fileWatchers = [r \in DOMAIN @ |->
              [@[r] EXCEPT !.pw = [p \in DOMAIN @ |-> [@[p] EXCEPT !.left = @ - 1]]]]], FALSE)

(***************************************************************************)
(* Initial state and next-state relation.                                  *)
(***************************************************************************)
Init ==
    /\ store = EmptyMap
    /\ connected = {}
    /\ socketRooms = EmptyMap
    /\ rooms = EmptyMap
    /\ roomFiles = EmptyMap
    /\ userActiveFiles = EmptyMap
    /\ userSession = EmptyMap
    /\ terminals = EmptyMap
    /\ sharedWorkingDirectories = {}
    /\ fileWatchers = EmptyMap
    /\ userRooms = EmptyMap
    /\ fileSyncInProgress = EmptyMap
    /\ disk = EmptyMap
    /\ ptyExits = {}
    /\ immediates = <<>>
    /\ syncTimers = {}
    /\ respawnTimers = {}
    /\ joinsAwaiting = {}
    /\ out = <<>>
    /\ hist = [op |-> "none"]



(***************************************************************************)
(* Specifications.  Every one starts from the state after construction and *)
(* drives a part of the gateway.                                           *)
(***************************************************************************)
NoteN == <<"n">>
DirD == <<"d">>
SyncCodes == {"x=1", "x=2"}

\* no callback is ready and no timer or watcher poll is pending
Quiescent == NothingDue /\ ~SomethingPending

\* the timers every specification needs for time to pass
Clock ==
    \/ \E key \in DOMAIN fileSyncInProgress : TokenExpire(key)
    \/ \E t \in syncTimers : SyncTimerFire(t)
    \/ \E r \in DOMAIN fileWatchers : \E p \in DOMAIN fileWatchers[r].pw : WatcherWriteFinish(r, p)
    \/ Tick

\* one editor on main.js, who also runs it
NextEdit ==
    \/ Connect("u1")
    \/ CreateRoom("u1", "R1", "p")
    \/ \E c \in SyncCodes : CodeChange("u1", "R1", c, MainJs)
    \/ \E ev \in {"run-file", "save-and-run"} :
          IF ev = "run-file" THEN RunFile("u1", "R1", MainJs)
          ELSE SaveAndRun("u1", "R1", <<>>)
    \/ RunImmediate
    \/ Clock

SpecEdit == Init /\ [][NextEdit]_vars

\* one editor on main.js and the shell writing the same file
NextSync ==
    \/ NextEdit
    \/ ShellWrite("u1", MainJs, "hi")

SpecSync == Init /\ [][NextSync]_vars

\* the shell creating files and directories
NextShell ==
    \/ Connect("u1")
    \/ CreateRoom("u1", "R1", "p")
    \/ \E c \in {"", "hi"} : ShellWrite("u1", NoteN, c)
    \/ ShellMkdir("u1", DirD)
    \/ \E p \in {NoteN, DirD} : ShellRemove("u1", p)
    \/ \E r \in DOMAIN fileWatchers : WatcherEvent(r)
    \/ Clock

SpecShell == Init /\ [][NextShell]_vars

FileX == <<"x">>
DirDFileX == JoinPath(DirD, FileX)

\* a request reaches the server while at most MaxEvents watcher events wait
FewEvents(r) ==
    IF r \in DOMAIN fileWatchers THEN Len(fileWatchers[r].ev) <= MaxEvents ELSE TRUE

\* two members of one room managing its tree, faster than the timers
NextTree ==
    \/ \E u \in {"u1", "u2"} : Connect(u)
    \/ CreateRoom("u1", "R1", "p")
    \/ JoinRoom("u2", "R1", "p")
    \/ FewEvents("R1") /\ CreateFolder("u1", "R1", DirD, <<>>)
    \/ FewEvents("R1") /\ CreateFile("u1", "R1", FileX, DirD)
    \/ \E p \in {MainJs, DirD} : FewEvents("R1") /\ DeleteItem("u1", "R1", p)
    \/ SwitchFile("u2", "R1", DirDFileX)
    \/ ToggleFolder("u1", "R1", DirD)
    \/ FewEvents("R1") /\ RenameItem("u1", "R1", MainJs, FileX)
    \/ FewEvents("R1") /\ MoveItem("u1", "R1", DirDFileX, MainJs, "file")
    \/ \E r \in DOMAIN fileWatchers : WatcherEvent(r)

SpecTree == Init /\ [][NextTree]_vars

DirE == <<"e">>
DirDDirE == JoinPath(DirD, DirE)

\* one member creating and deleting a folder and a folder in it
NextFolder ==
    \/ Connect("u1")
    \/ CreateRoom("u1", "R1", "p")
    \/ FewEvents("R1") /\ CreateFolder("u1", "R1", DirD, <<>>)
    \/ FewEvents("R1") /\ CreateFolder("u1", "R1", DirE, DirD)
    \/ \E p \in {DirD, DirDDirE} : FewEvents("R1") /\ DeleteItem("u1", "R1", p)
    \/ \E r \in DOMAIN fileWatchers : WatcherEvent(r)
    \/ Clock

SpecFolder == Init /\ [][NextFolder]_vars

\* two connections, members of one room or not, and their terminals; the
\* shell of u2 makes a directory
NextTerm ==
    \/ \E u \in {"u1", "u2"} : Connect(u)
    \/ CreateRoom("u1", "R1", "p")
    \/ JoinRoom("u2", "R1", "p")
    \/ \E u \in {"u1", "u2"} : CreateFile(u, "R1", FileX, <<>>)
    \/ \E u \in {"u1", "u2"} : TerminalInit(u, "R1")
    \/ \E u \in {"u1", "u2"} : TerminalInput(u)
    \/ \E u \in {"u1", "u2"} : KillProcess(u)
    \/ ShellMkdir("u2", DirD)
    \/ \E r \in DOMAIN fileWatchers : WatcherEvent(r)
    \/ \E u \in {"u1", "u2"} : ExecuteCommand(u)
    \/ \E u \in {"u1", "u2"} : \E f \in {MainJs, FileX} : RunFile(u, "R1", f)
    \/ \E u \in {"u1", "u2"} : PtyData(u)
    \/ \E u \in {"u1", "u2"} : PtyExit(u)
    \/ \E u \in {"u1", "u2"} : Disconnect(u)
    \/ \E x \in ptyExits : KilledPtyExit(x)

SpecTerm == Init /\ [][NextTerm]_vars

\* one member renaming the files that the room and the shell have made
NextRename ==
    \/ Connect("u1")
    \/ CreateRoom("u1", "R1", "p")
    \/ Quiescent /\ ShellWrite("u1", NoteN, "hi")
    \/ \E a, b \in {NoteN, <<"m">>} : FewEvents("R1") /\ RenameItem("u1", "R1", a, b)
    \/ \E r \in DOMAIN fileWatchers : WatcherEvent(r)
    \/ Clock

SpecRename == Init /\ [][NextRename]_vars

DirDDirEFileX == JoinPath(DirDDirE, FileX)

\* two members of one room sending every tree operation, with paths that are
\* and paths that are not in the tree, faster than the timers
NextOps ==
    \/ \E u \in {"u1", "u2"} : Connect(u)
    \/ CreateRoom("u1", "R1", "p")
    \/ JoinRoom("u2", "R1", "p")
    \/ FewEvents("R1") /\ CreateFolder("u1", "R1", DirD, <<>>)
    \/ CreateFile("u1", "R1", MainJs, <<>>)
    \/ \E p \in {MainJs, FileX} : DeleteItem("u1", "R1", p)
    \/ \E a \in {MainJs, FileX} : RenameItem("u1", "R1", a, MainJs)
    \/ FewEvents("R1") /\ RenameItem("u1", "R1", DirD, DirDDirE)
    \/ \E a \in {DirD, FileX} : \E b \in {DirDDirE, DirDDirEFileX, MainJs} :
          \E k \in {"file", "folder"} : FewEvents("R1") /\ MoveItem("u1", "R1", a, b, k)
    \/ \E p \in {MainJs, FileX, DirD} : ToggleFolder("u1", "R1", p)
    \/ \E p \in {MainJs, FileX, DirD} : SwitchFile("u2", "R1", p)
    \/ \E p \in {MainJs, FileX, DirD} : CodeChange("u1", "R1", "x=1", p)
    \/ RunImmediate
    \/ \E r \in DOMAIN fileWatchers : WatcherEvent(r)

SpecOps == Init /\ [][NextOps]_vars

\* connections creating, joining and leaving rooms, with codes that are and are
\* not in the store and passwords that do and do not match; R3 is never
\* created; a join-room of u2 may stay suspended while u2 sends switch-file
NextRooms ==
    \/ \E u \in {"u1", "u2"} : Connect(u)
    \/ \E u \in {"u1", "u2"} : \E c \in {"R1", "R2"} : CreateRoom(u, c, "p")
    \/ \E u \in {"u1", "u2"} : \E c \in {"R1", "R3"} : \E pw \in {"p", "q"} :
          JoinRoom(u, c, pw)
    \/ \E u \in {"u1", "u2"} :
          "R1" \in DOMAIN rooms /\ u \in Range(rooms["R1"]) /\ CreateFile(u, "R1", <<"1">>, <<>>)
    \/ \E u \in {"u1", "u2"} :
          "R1" \in DOMAIN rooms /\ u \in Range(rooms["R1"]) /\ DeleteItem(u, "R1", MainJs)
    \/ JoinRoomAwait("u2", "R1", "p")
    \/ \E x \in joinsAwaiting : JoinRoomResume(x)
    \/ SwitchFile("u2", "R1", MainJs)
    \/ \E u \in {"u1", "u2"} : Disconnect(u)
    \/ \E x \in ptyExits : KilledPtyExit(x)

SpecRooms == Init /\ [][NextRooms]_vars

\* the members of one room coming and going, their shells exiting, and the
\* timers of the server
NextExit ==
    \/ \E u \in {"u1", "u2"} : Connect(u)
    \/ CreateRoom("u1", "R1", "p")
    \/ JoinRoom("u2", "R1", "p")
    \/ \E u \in {"u1", "u2"} : PtyExit(u)
    \/ \E u \in {"u1", "u2"} : Disconnect(u)
    \/ \E x \in ptyExits : KilledPtyExit(x)
    \/ \E t \in respawnTimers : RespawnTimerFire(t)
    \/ Clock

SpecExit == Init /\ [][NextExit]_vars

\* one member whose shell exits, next to a second member, with the event loop
\* running: a timer that is due fires, time passes when nothing is due, and
\* the exit of a killed process is delivered
NextRespawn ==
    \/ \E u \in {"u1", "u2"} : Connect(u)
    \/ CreateRoom("u1", "R1", "p")
    \/ JoinRoom("u2", "R1", "p")
    \/ PtyExit("u1")
    \/ Disconnect("u1")
    \/ \E x \in ptyExits : KilledPtyExit(x)
    \/ \E t \in respawnTimers : RespawnTimerFire(t)
    \/ Clock

SpecRespawn ==
    /\ Init /\ [][NextRespawn]_vars
    /\ WF_vars(Clock)
    /\ WF_vars(\E t \in respawnTimers : RespawnTimerFire(t))
    /\ WF_vars(\E x \in ptyExits : KilledPtyExit(x))

(***************************************************************************)
(* Properties.                                                             *)
(***************************************************************************)
TokensFor(r, p) == {k \in DOMAIN fileSyncInProgress : k.room = r /\ k.path = p}
DeferredWriteFor(r, p) ==
    \/ \E i \in 1..Len(immediates) : immediates[i].room = r /\ immediates[i].file = p
    \/ \E t \in syncTimers : t.room = r
WritesIn(o, r, p) ==
    {i \in 1..Len(o) : o[i].ev = "fs.writeFileSync" /\ o[i].data = [room |-> r, path |-> p]}

\* C1: every room with a member has at least one node of type file.
C1_RoomHasFile ==
    \A r \in DOMAIN rooms :
        rooms[r] # <<>> => (r \in DOMAIN roomFiles /\ FileKeys(roomFiles[r]) # <<>>)

\* C2: the active file of every member of a room is a key of the room's tree
\* whose node is a file; stated for the rooms whose tree has a file node.
C2_ActiveFileIsFile ==
    \A r \in DOMAIN rooms : \A u \in Range(rooms[r]) :
        (r \in DOMAIN roomFiles /\ FileKeys(roomFiles[r]) # <<>>)
            => (u \in DOMAIN userActiveFiles /\ IsFileItem(Cur, r, userActiveFiles[u]))

\* C3: every terminal-output of a user's PTY session reaches nobody but that
\* user.
C3_OutputOnlyToOwner ==
    \A i \in 1..Len(out) :
        out[i].ev = "terminal-output" => out[i].to \subseteq {out[i].data.pty}

\* a terminal-output of one member is emitted and delivered while another
\* member of the same room is connected
C3_Witness ==
    \E i \in 1..Len(out) : \E r \in DOMAIN rooms : \E b \in Range(rooms[r]) \cap connected :
        /\ out[i].ev = "terminal-output"
        /\ out[i].data.pty \in Range(rooms[r]) \ {b}
        /\ out[i].to = {out[i].data.pty}
        /\ r \in socketRooms[b] \cap socketRooms[out[i].data.pty]

\* the tree and the working directory are as they were before the create-folder
C10_Restored ==
    /\ roomFiles[hist.room] = hist.tree
    /\ Lookup(disk, hist.room) = hist.dir

\* before the create-folder no key was below the path, nothing was on disk at
\* the path and the path's parent directory was on disk
C10_FreshPath ==
    /\ \A i \in 1..Len(hist.tree) :
          ~StartsWith(hist.tree[i].key, hist.path \o <<Slash>>)
    /\ hist.hadDir =>
          /\ hist.path \notin DOMAIN hist.dir
          /\ \/ Dirname(hist.path) = <<>>
             \/ /\ Dirname(hist.path) \in DOMAIN hist.dir
                /\ hist.dir[Dirname(hist.path)].type = "dir"

\* C10 as stated: for a path that is no key of the room's tree, create-folder
\* then delete-item of it leave the tree and the working directory as before.
C10_RoundTripAnyState ==
    (hist.op = "create-delete" /\ hist.hadTree) => C10_Restored

\* C10: for a path that is no key of the room's tree, with no key below it,
\* nothing on disk at it and its parent directory on disk, create-folder then
\* delete-item of it leave the tree and the working directory as before.
C10_RoundTrip ==
    (hist.op = "create-delete" /\ hist.hadTree /\ C10_FreshPath) => C10_Restored

\* such a round trip has run in a room with a working directory, below a folder
C10_Witness ==
    /\ hist.op = "create-delete"
    /\ hist.hadTree
    /\ hist.hadDir
    /\ C10_FreshPath
    /\ Dirname(hist.path) # <<>>
    /\ C10_Restored

\* C4: for every file node of a room with a working directory, when no sync
\* token for (room, path) is active and no deferred write for it is pending,
\* the file on disk has the node's content.
C4_DiskEqualsNode ==
    \A r \in sharedWorkingDirectories \cap DOMAIN roomFiles :
        \A p \in Range(FileKeys(roomFiles[r])) :
            (TokensFor(r, p) = {} /\ ~DeferredWriteFor(r, p))
                => (IsFileOnDisk(Cur, r, p)
                    /\ disk[r][p].content = Get(roomFiles[r], p).content)

\* C5: once the watcher's add event of a file on disk has been handled, the
\* room's tree has a node at that path; stated for files, a file of empty
\* content included.
C5_AddedPathHasNode ==
    [][\A r \in DOMAIN fileWatchers : \A p \in DOMAIN fileWatchers[r].pw :
          (/\ fileWatchers[r].pw[p].kind = "add"
           /\ IsFileOnDisk(Cur, r, p)
           /\ WatcherWriteFinish(r, p))
              => HasItem(Cur, r, p)']_vars

\* C6: no editor-origin disk write for (room, path) happens while the
\* terminal-origin token of (room, path) is active, and no watcher-origin tree
\* update for (room, path) happens while its editor-origin token is active.
C6_ArbiterGating ==
    [][\A k \in DOMAIN fileSyncInProgress :
          /\ k.origin = "terminal" => WritesIn(out', k.room, k.path) = {}
          /\ k.origin = "editor" =>
                ~(/\ k.room \in DOMAIN fileWatchers
                  /\ k.path \in DOMAIN fileWatchers[k.room].pw
                  /\ WatcherWriteFinish(k.room, k.path)
                  /\ roomFiles' # roomFiles)]_vars

\* C7: the watcher event raised by an editor-origin disk write changes no
\* tree and fans nothing out.
C7_NoEcho ==
    [][\A r \in DOMAIN fileWatchers : \A p \in DOMAIN fileWatchers[r].pw :
          (fileWatchers[r].pw[p].origin = "editor" /\ WatcherWriteFinish(r, p))
              => (roomFiles' = roomFiles /\ out' = <<>>)]_vars

\* C8: after code-change c1 and then code-change c2 # c1 of one connection for
\* one file, once all timers and watcher events have run, node and disk hold c2.
C8_FollowUpEditKept ==
    (hist.op = "code-change" /\ hist.prev # <<>> /\ hist.prev # <<hist.code>> /\ Quiescent)
        => /\ Get(roomFiles[hist.room], hist.file).content = hist.code
           /\ IsFileOnDisk(Cur, hist.room, hist.file)
           /\ disk[hist.room][hist.file].content = hist.code

\* C9: the second of two applications of the same code-change performs no
\* disk write.
C9_SecondWriteElided ==
    (hist.op = "code-change" /\ hist.prev = <<hist.code>> /\ hist.stage = "ran")
        => WritesIn(out, hist.room, hist.file) = {}

\* C11: rename-item(a, b) of an existing node to an absent path followed by
\* rename-item(b, a) leaves the room's nodes as they were: the same paths, and
\* at every path the same type, content, extension and expanded flag.
C11_RenameRoundTrip ==
    hist.op = "rename-back" => Range(roomFiles[hist.room]) = Range(hist.tree)

\* C12: delete-item of a file that is the only file node of its room sends
\* file-error to the requester and leaves the tree, the working directory and
\* every user's active file as they were.
C12_LastFileKept ==
    [][\A u \in connected : \A r \in DOMAIN roomFiles : \A i \in 1..Len(roomFiles[r]) :
          (/\ roomFiles[r][i].node.type = "file"
           /\ \A j \in 1..Len(roomFiles[r]) : roomFiles[r][j].node.type = "file" => j = i
           /\ DeleteItem(u, r, roomFiles[r][i].key))
              => /\ out' = <<[ev |-> "file-error", to |-> {u},
                              data |-> [message |-> "Cannot delete the last file"]]>>
                 /\ roomFiles' = roomFiles
                 /\ disk' = disk
                 /\ userActiveFiles' = userActiveFiles]_vars

\* the last file of a room with two members, a folder and a working directory
\* has been refused
C12_Witness ==
    /\ Len(out) = 1
    /\ out[1].ev = "file-error"
    /\ out[1].data.message = "Cannot delete the last file"
    /\ out[1].to = {"u1"}
    /\ "R1" \in DOMAIN rooms
    /\ Len(rooms["R1"]) = 2
    /\ Len(roomFiles["R1"]) = 2
    /\ IsDirOnDisk(Cur, "R1", DirD)

\* C13: for every folder node s of a room's tree and every targetPath that has
\* s + '/' as prefix, move-item of a member of the room sends file-error to the
\* requester and leaves the tree and the working directory as they were.
C13_IntoSelfRefused ==
    [][\A r \in DOMAIN rooms : \A u \in Range(rooms[r]) : \A i \in 1..Len(roomFiles[r]) :
          \A t \in {DirDDirE, DirDDirEFileX} : \A k \in {"file", "folder"} :
              (/\ roomFiles[r][i].node.type = "folder"
               /\ StartsWith(t, roomFiles[r][i].key \o <<Slash>>)
               /\ MoveItem(u, r, roomFiles[r][i].key, t, k))
                  => /\ Len(out') = 1
                     /\ out'[1].ev = "file-error"
                     /\ out'[1].to = {u}
                     /\ roomFiles' = roomFiles
                     /\ disk' = disk]_vars
\* C14: a join-room whose code is not in the room store, or whose password
\* does not match the stored hash, replies success = false and changes no
\* membership list, tree, active file, PTY session or working directory.
C14_FailedJoinChangesNothing ==
    [][\A u \in connected : \A c \in {"R1", "R3"} : \A pw \in {"p", "q"} :
          (/\ \/ c \notin DOMAIN store
              \/ store[c] # bcryptHash(pw)
           /\ JoinRoom(u, c, pw))
              => /\ Len(out') = 1
                 /\ out'[1].ev = "ack"
                 /\ out'[1].to = {u}
                 /\ out'[1].data.success = FALSE
                 /\ UNCHANGED <<rooms, roomFiles, userActiveFiles, terminals, userRooms,
                                sharedWorkingDirectories, fileWatchers, disk, socketRooms,
                                respawnTimers, syncTimers, ptyExits>>]_vars

\* a join with the wrong password has been refused while the room has a member
\* and a tree of its own
C14_Witness ==
    /\ Len(out) = 1
    /\ out[1].ev = "ack"
    /\ out[1].data.success = FALSE
    /\ out[1].data.error = "Invalid password"
    /\ "R1" \in DOMAIN rooms
    /\ out[1].to \cap Range(rooms["R1"]) = {}
    /\ roomFiles["R1"] # getDefaultFiles
\* C15: a successful join-room of a connection that is not in the room appends
\* the user to the room's members, leaves an in-memory tree as it is and makes
\* the default tree when the room has no in-memory state, sets the user's
\* active file to the first file node in insertion order, spawns the user's
\* PTY, and replies success with that tree and that file; stated for the
\* connections that have no PTY session.
C15_JoinSucceeds ==
    [][\A u \in connected \ DOMAIN terminals : \A c \in DOMAIN store :
          (/\ c \in DOMAIN rooms => u \notin Range(rooms[c])
           /\ JoinRoom(u, c, "p"))
              => LET tree == IF c \in DOMAIN rooms THEN roomFiles[c] ELSE getDefaultFiles
                     first == CHOOSE i \in 1..Len(tree) :
                                  /\ tree[i].node.type = "file"
                                  /\ \A j \in 1..(i - 1) : tree[j].node.type # "file"
                 IN  /\ rooms'[c] = Append(IF c \in DOMAIN rooms THEN rooms[c] ELSE <<>>, u)
                     /\ roomFiles'[c] = tree
                     /\ userActiveFiles'[u] = tree[first].key
                     /\ u \in DOMAIN terminals'
                     /\ terminals'[u].room = c
                     /\ out'[Len(out')] =
                            [ev |-> "ack", to |-> {u},
                             data |-> [success |-> TRUE, files |-> tree,
                                       activeFile |-> tree[first].key]]]_vars
\* C16: a successful create-room makes the room's tree exactly the default
\* file main.js with content '// start typing...', its members exactly the
\* creator, sets the creator's active file to main.js, spawns the creator's
\* PTY, and replies success with the new room code.
C16_CreateSucceeds ==
    [][\A u \in connected : \A c \in {"R1", "R2"} \ DOMAIN store :
          CreateRoom(u, c, "p")
              => /\ roomFiles'[c] = <<[key |-> MainJs,
                                       node |-> [type |-> "file",
                                                 content |-> "// start typing...",
                                                 extension |-> ExtJs,
                                                 isExpanded |-> FALSE]]>>
                 /\ rooms'[c] = <<u>>
                 /\ userActiveFiles'[u] = MainJs
                 /\ u \notin DOMAIN terminals
                 /\ u \in DOMAIN terminals'
                 /\ terminals'[u].room = c
                 /\ c \in DOMAIN store'
                 /\ out'[Len(out')] = [ev |-> "ack", to |-> {u},
                                       data |-> [success |-> TRUE, roomCode |-> c]]]_vars
\* C17: a create-room whose generated code is already the code of a persisted
\* room still ends with a successful reply, carrying a code that was not in
\* use.
C17_CollisionRetried ==
    [][\A u \in connected : \A c \in DOMAIN store :
          CreateRoom(u, c, "p")
              => /\ out' # <<>>
                 /\ out'[Len(out')].ev = "ack"
                 /\ out'[Len(out')].to = {u}
                 /\ out'[Len(out')].data.success = TRUE
                 /\ out'[Len(out')].data.roomCode \notin DOMAIN store]_vars
\* C19: when the respawn timer of a user's shell fires and the user is not a
\* member of the room, no PTY is spawned and no working directory and no
\* watcher is made.
C19_RespawnSuppressed ==
    [][\A t \in respawnTimers :
          (/\ ~(t.room \in DOMAIN rooms /\ t.user \in Range(rooms[t.room]))
           /\ RespawnTimerFire(t))
              => UNCHANGED <<terminals, userRooms, disk, sharedWorkingDirectories,
                             fileWatchers>>]_vars

\* C18: a room that the disconnect of its last member has cleaned up has no
\* watcher, no working directory, no membership list and no tree until a
\* join-room brings it back.
C18_CleanedUpStaysAbsent ==
    \A c \in DOMAIN store :
        c \notin DOMAIN rooms
            => /\ c \notin DOMAIN fileWatchers
               /\ c \notin DOMAIN disk
               /\ c \notin sharedWorkingDirectories
               /\ c \notin DOMAIN roomFiles
\* the step sent one file-error, to u alone, and nothing else, and left every
\* tree as it was
C20_Reported(u) ==
    /\ Len(out') = 1
    /\ out'[1].ev = "file-error"
    /\ out'[1].to = {u}
    /\ roomFiles' = roomFiles

\* C20: every failed tree operation (NotFound, AlreadyExists,
\* CannotDeleteLastFile, IntoSelf, NotAFile) of create-file, create-folder,
\* delete-item, rename-item, move-item, toggle-folder, switch-file and
\* code-change, sent by a member of the room, is answered with a file-error to
\* the requester alone, sends nothing to anybody else and leaves the tree as it
\* was.
C20_FailureReported ==
    [][\A r \in DOMAIN rooms : \A u \in Range(rooms[r]) : \A p \in {MainJs, FileX, DirD} :
          LET tree == roomFiles[r]
              has == Has(tree, p)
              isFile == has /\ Get(tree, p).type = "file"
              isFolder == has /\ Get(tree, p).type = "folder"
          IN  /\ (has /\ CreateFile(u, r, p, <<>>)) => C20_Reported(u)
              /\ (has /\ CreateFolder(u, r, p, <<>>)) => C20_Reported(u)
              /\ ((~has \/ (isFile /\ LastFile(tree))) /\ DeleteItem(u, r, p))
                    => C20_Reported(u)
              /\ \A b \in {MainJs, FileX} :
                    ((~has \/ Has(tree, b)) /\ RenameItem(u, r, p, b)) => C20_Reported(u)
              /\ \A b \in {DirDDirE, DirDDirEFileX, MainJs} : \A k \in {"file", "folder"} :
                    (/\ \/ ~has
                        \/ k = "folder" /\ StartsWith(b, p \o <<Slash>>)
                        \/ Has(tree, b)
                     /\ MoveItem(u, r, p, b, k)) => C20_Reported(u)
              /\ (~isFolder /\ ToggleFolder(u, r, p)) => C20_Reported(u)
              /\ (~isFile /\ SwitchFile(u, r, p)) => C20_Reported(u)
              /\ (~isFile /\ CodeChange(u, r, "x=1", p)) => C20_Reported(u)]_vars

\* C21: after a successful rename-item or move-item of a file from a to b,
\* every member of the room whose active file was a has active file b and is
\* sent active-file-changed with b, and the files-update sent to the room has
\* the key b and not the key a.
C21_ActiveFollows ==
    [][\A a \in {MainJs, DirDFileX} : \A b \in {MainJs, FileX} :
          (/\ "R1" \in DOMAIN rooms
           /\ IsFileItem(Cur, "R1", a)
           /\ RenameItem("u1", "R1", a, b) \/ MoveItem("u1", "R1", a, b, "file")
           /\ \E i \in 1..Len(out') : out'[i].ev \in {"item-renamed", "item-moved"})
              => /\ \A m \in Range(rooms["R1"]) :
                       Lookup(userActiveFiles, m) = a
                          => /\ Lookup(userActiveFiles', m) = b
                             /\ \E i \in 1..Len(out') :
                                   /\ out'[i].ev = "active-file-changed"
                                   /\ m \in out'[i].to
                                   /\ out'[i].data.fileName = b
                 /\ \E i \in 1..Len(out') :
                       /\ out'[i].ev = "files-update"
                       /\ out'[i].to = Range(rooms["R1"])
                       /\ Has(out'[i].data, b)
                       /\ ~Has(out'[i].data, a)]_vars

\* main.js was renamed to x while it was the active file of both members
C21_Witness ==
    /\ Len(out) = 4
    /\ out[1].ev = "active-file-changed" /\ out[1].to = {"u1"}
    /\ out[2].ev = "active-file-changed" /\ out[2].to = {"u2"}
    /\ out[2].data.fileName = FileX
    /\ out[4].ev = "item-renamed"
    /\ "R1" \in DOMAIN rooms
    /\ userActiveFiles["u2"] = FileX
    /\ ~Has(roomFiles["R1"], MainJs)

\* C22: an event that names room R (here terminal-init, run-file and
\* create-file) and comes from a connection that is not in R's membership list
\* leaves R's tree, R's working directory and the set of PTYs bound to R as
\* they were.
C22_MembersOnly ==
    [][\A u \in connected :
          (/\ "R1" \in DOMAIN rooms
           /\ u \notin Range(rooms["R1"])
           /\ \/ TerminalInit(u, "R1")
              \/ CreateFile(u, "R1", FileX, <<>>)
              \/ \E f \in {MainJs, FileX} : RunFile(u, "R1", f))
              => /\ Lookup(roomFiles', "R1") = Lookup(roomFiles, "R1")
                 /\ Lookup(disk', "R1") = Lookup(disk, "R1")
                 /\ {k \in DOMAIN terminals' : terminals'[k].room = "R1"}
                       = {k \in DOMAIN terminals : terminals[k].room = "R1"}]_vars

\* C23: a room code has a tree, a working directory, a watcher or a PTY bound
\* to it only if its membership list exists and is not empty.
C23_StateOnlyWithMembers ==
    \A r \in DOMAIN roomFiles \cup DOMAIN disk \cup sharedWorkingDirectories
             \cup DOMAIN fileWatchers \cup {terminals[k].room : k \in DOMAIN terminals} :
        r \in DOMAIN rooms /\ rooms[r] # <<>>

\* C24: a watcher event that is handled after its room has been cleaned up
\* (the room is in the store and has no membership list) creates or changes no
\* membership list, no tree and no active file, and sends nothing.
C24_LateEventsDiscarded ==
    [][\A r \in DOMAIN fileWatchers :
          (r \in DOMAIN store /\ r \notin DOMAIN rooms /\ WatcherEvent(r))
              => /\ rooms' = rooms
                 /\ roomFiles' = roomFiles
                 /\ userActiveFiles' = userActiveFiles
                 /\ out' = <<>>]_vars

\* C25: the events of one connection take effect in arrival order, also when
\* the first is a join-room whose handler awaits the store and the hash: when
\* a switch-file of the connection has been handled while its join-room was
\* suspended, the switched-to file is the connection's active file once the
\* join-room has been handled too.
C25_ArrivalOrder ==
    [][\A x \in joinsAwaiting :
          (/\ Len(out) = 2
           /\ out[1].ev = "file-content-update"
           /\ out[2].ev = "active-file-changed"
           /\ out[2].to = {x.user}
           /\ JoinRoomResume(x))
              => Lookup(userActiveFiles', x.user) = out[2].data.fileName]_vars

\* C26: the fan-outs of a mutation are emitted after it is applied: every
\* files-update of a step carries the tree as it is after the step, and every
\* file-created, folder-created, item-deleted, item-renamed, item-moved and
\* folder-toggled comes after such a files-update and names what the tree
\* then shows.
C26_FanOutAfterMutation ==
    \A i \in 1..Len(out) :
        LET e == out[i]
            tree == roomFiles["R1"]
        IN  /\ e.ev = "files-update" => "R1" \in DOMAIN roomFiles /\ e.data = tree
            /\ e.ev \in {"file-created", "folder-created", "item-deleted", "item-renamed",
                         "item-moved", "folder-toggled"}
                  => \E j \in 1..(i - 1) : out[j].ev = "files-update" /\ out[j].data = tree
            /\ e.ev = "file-created" => Has(tree, e.data.fileName)
            /\ e.ev = "folder-created" => Has(tree, e.data.folderPath)
            /\ e.ev = "item-deleted" => ~Has(tree, e.data.itemPath)
            /\ e.ev = "item-renamed" => Has(tree, e.data.newPath) /\ ~Has(tree, e.data.oldPath)
            /\ e.ev = "item-moved"
                  => Has(tree, e.data.targetPath) /\ ~Has(tree, e.data.sourcePath)
            /\ e.ev = "folder-toggled"
                  => Get(tree, e.data.folderPath).isExpanded = e.data.isExpanded

\* folder d has been deleted with the file under it, in a room of two members
C26_Witness ==
    /\ Len(out) >= 2
    /\ out[Len(out)].ev = "item-deleted"
    /\ out[Len(out)].data = [itemPath |-> DirD, type |-> "folder"]
    /\ out[Len(out)].to = {"u1", "u2"}
    /\ out[Len(out) - 1].ev = "files-update"
    /\ "R1" \in DOMAIN rooms
    /\ ~Has(roomFiles["R1"], DirDFileX)
    /\ hist.op = "none"

\* C27: when the rename in the working directory that rename-item or move-item
\* (one that passes the into-itself guard) of a member attempts throws (at
\* mkdirSync of the parent or at renameSync),
\* the tree and every user's active file stay as they were, the requester
\* alone is sent file-error, and no files-update, item-renamed or item-moved is
\* sent.
C27_DiskFailureRollsBack ==
    [][\A a \in {DirD} : \A b \in {DirDDirE, DirDDirEFileX} :
          LET dir == Dirname(b)
              throws == /\ "R1" \in sharedWorkingDirectories
                        /\ ExistsOnDisk(Cur, "R1", a)
                        /\ IF ExistsOnDisk(Cur, "R1", dir)
                           THEN RenameThrows(Cur, "R1", a, b)
                           ELSE \/ MkdirThrows(Cur, "R1", dir)
                                \/ RenameThrows(FsMkdirP(Cur, "R1", dir), "R1", a, b)
          IN  (/\ "R1" \in DOMAIN rooms
               /\ "u1" \in Range(rooms["R1"])
               /\ HasItem(Cur, "R1", a)
               /\ ~Has(roomFiles["R1"], b)
               /\ throws
               /\ RenameItem("u1", "R1", a, b) \/ MoveItem("u1", "R1", a, b, "file"))
                  => /\ roomFiles' = roomFiles
                     /\ userActiveFiles' = userActiveFiles
                     /\ Len(out') = 1
                     /\ out'[1].ev = "file-error"
                     /\ out'[1].to = {"u1"}]_vars

\* the rename of folder d to d/e has failed in the working directory
C27_Witness ==
    /\ Len(out) = 1
    /\ out[1].ev = "file-error"
    /\ out[1].data.message = "Failed to rename item in working directory"
    /\ out[1].to = {"u1"}
    /\ "R1" \in DOMAIN rooms
    /\ Has(roomFiles["R1"], DirD)
    /\ IsDirOnDisk(Cur, "R1", DirD)
    /\ ~ExistsOnDisk(Cur, "R1", DirDDirE)

C29_KillOwnPtyOnly ==
    [][\A u \in connected :
          KillProcess(u)
              => /\ out' = IF u \in DOMAIN terminals
                           THEN <<[ev |-> "pty.write", to |-> {u}, data |-> "ctrl-c"]>>
                           ELSE <<>>
                 /\ UNCHANGED <<store, connected, socketRooms, rooms, roomFiles,
                                userActiveFiles, userSession, terminals,
                                sharedWorkingDirectories, fileWatchers, userRooms,
                                fileSyncInProgress, disk, ptyExits, immediates,
                                syncTimers, respawnTimers, joinsAwaiting>>]_vars

\* u2 has interrupted its own shell while u1 has a shell too
C29_Witness ==
    /\ out = <<[ev |-> "pty.write", to |-> {"u2"}, data |-> "ctrl-c"]>>
    /\ DOMAIN terminals = {"u1", "u2"}
    /\ "R1" \in DOMAIN rooms
    /\ rooms["R1"] = <<"u1", "u2">>

C31_FlushedBeforeRun ==
    \A i \in 1..Len(out) :
        (out[i].ev = "pty.write" /\ out[i].data = "run")
            => /\ IsFileOnDisk(Cur, "R1", MainJs)
               /\ disk["R1"][MainJs].content = Get(roomFiles["R1"], MainJs).content

\* C32: after a delete-item of a member that deleted nodes, every member whose
\* active file is among the deleted paths has the first remaining file node
\* (in insertion order, when a file remains) as active file and has been sent file-content-update
\* and active-file-changed for it; the other members keep their active file.
C32_DeletedActiveReassigned ==
    [][\A p \in {MainJs, DirD} :
          (/\ "R1" \in DOMAIN rooms
           /\ "u1" \in Range(rooms["R1"])
           /\ HasItem(Cur, "R1", p)
           /\ DeleteItem("u1", "R1", p)
           /\ \E i \in 1..Len(out') : out'[i].ev = "item-deleted")
              => LET deleted == {k \in Range(InsertionKeys(roomFiles["R1"])) :
                                    k = p \/ StartsWith(k, p \o <<Slash>>)}
                     files == SelectSeq(roomFiles'["R1"], LAMBDA e : e.node.type = "file")
                 IN  \A m \in Range(rooms["R1"]) :
                        IF Lookup(userActiveFiles, m) \in deleted
                        THEN files # <<>> =>
                                /\ Lookup(userActiveFiles', m) = files[1].key
                                /\ \E i \in 1..Len(out') :
                                      /\ out'[i].ev = "active-file-changed"
                                      /\ m \in out'[i].to
                                      /\ out'[i].data.fileName = files[1].key
                        ELSE Lookup(userActiveFiles', m) = Lookup(userActiveFiles, m)]_vars

\* one member with a folder d, a file in it, a sibling folder dx and a file
\* under e; the folder is renamed or moved to e, and goes by delete-item or by
\* the member's shell
NextSibling ==
    \/ Connect("u1")
    \/ CreateRoom("u1", "R1", "p")
    \/ \E n \in {DirD, <<"d", "x">>} : FewEvents("R1") /\ CreateFolder("u1", "R1", n, <<>>)
    \/ \E d \in {DirD, DirE} : FewEvents("R1") /\ CreateFile("u1", "R1", FileX, d)
    \/ \E p \in {DirD, MainJs, JoinPath(DirE, FileX)} :
          FewEvents("R1") /\ DeleteItem("u1", "R1", p)
    \/ FewEvents("R1") /\ RenameItem("u1", "R1", DirD, DirE)
    \/ \E k \in {"file", "folder"} : FewEvents("R1") /\ MoveItem("u1", "R1", DirD, DirE, k)
    \/ ShellRemove("u1", DirD)
    \/ \E r \in DOMAIN fileWatchers : WatcherEvent(r)

SpecSibling == Init /\ [][NextSibling]_vars

\* C33: a delete-item of a folder at p, and the watcher's directory-removed
\* event for p, remove exactly the key p and the keys with prefix p + '/' and
\* leave every other node as it was, a sibling such as "dx" included.
C33_FolderDeleteExact ==
    [][\A p \in {DirD} :
          LET kept == SelectSeq(roomFiles["R1"],
                         LAMBDA e : ~(e.key = p \/ StartsWith(e.key, p \o <<Slash>>)))
          IN  /\ (/\ HasItem(Cur, "R1", p)
                  /\ Get(roomFiles["R1"], p).type = "folder"
                  /\ DeleteItem("u1", "R1", p))
                     => roomFiles'["R1"] = kept
              /\ (/\ "R1" \in DOMAIN fileWatchers
                  /\ "R1" \in DOMAIN roomFiles
                  /\ fileWatchers["R1"].ev # <<>>
                  /\ Head(fileWatchers["R1"].ev) = [kind |-> "unlinkDir", path |-> p]
                  /\ WatcherEvent("R1"))
                     => roomFiles'["R1"] = kept]_vars

\* folder d has just been deleted and its sibling dx is still in the tree
C33_Witness ==
    /\ "R1" \in DOMAIN roomFiles
    /\ Has(roomFiles["R1"], <<"d", "x">>)
    /\ ~Has(roomFiles["R1"], DirD)
    /\ \E i \in 1..Len(out) :
          /\ out[i].ev = "item-deleted"
          /\ out[i].data = [itemPath |-> DirD, type |-> "folder"]

\* C34: a successful rename-item or move-item of a member whose source is the
\* folder node d re-keys d and every descendant d/suffix to e/suffix: afterwards
\* no key is d or below d, every re-keyed node is the node it was, and, when d
\* was a directory of the working directory, every re-keyed path is on disk.
C34_FolderRekeyed ==
    [][(/\ "R1" \in DOMAIN rooms
        /\ "u1" \in Range(rooms["R1"])
        /\ HasItem(Cur, "R1", DirD)
        /\ Get(roomFiles["R1"], DirD).type = "folder"
        /\ \/ RenameItem("u1", "R1", DirD, DirE)
           \/ \E k \in {"file", "folder"} : MoveItem("u1", "R1", DirD, DirE, k)
        /\ \E i \in 1..Len(out') : out'[i].ev \in {"item-renamed", "item-moved"})
           => \A j \in 1..Len(roomFiles["R1"]) :
                 LET old == roomFiles["R1"][j]
                     to == DirE \o SubSeq(old.key, Len(DirD) + 1, Len(old.key))
                 IN  AtOrBelow(old.key, DirD)
                        => /\ ~Has(roomFiles'["R1"], old.key)
                           /\ Has(roomFiles'["R1"], to)
                           /\ Get(roomFiles'["R1"], to) = old.node
                           /\ ("R1" \in sharedWorkingDirectories /\ IsDirOnDisk(Cur, "R1", DirD))
                                 => "R1" \in DOMAIN disk' /\ to \in DOMAIN disk'["R1"]]_vars

\* C35: a successful rename-item or move-item of a member from d to e destroys
\* no node: the tree has as many nodes afterwards as before, and every node
\* that was not at or below d is still there unchanged.
C35_NoNodeDestroyed ==
    [][(/\ "R1" \in DOMAIN rooms
        /\ "u1" \in Range(rooms["R1"])
        /\ HasItem(Cur, "R1", DirD)
        /\ \/ RenameItem("u1", "R1", DirD, DirE)
           \/ \E k \in {"file", "folder"} : MoveItem("u1", "R1", DirD, DirE, k)
        /\ \E i \in 1..Len(out') : out'[i].ev \in {"item-renamed", "item-moved"})
           => /\ Len(roomFiles'["R1"]) = Len(roomFiles["R1"])
              /\ \A j \in 1..Len(roomFiles["R1"]) :
                    LET old == roomFiles["R1"][j]
                    IN  ~AtOrBelow(old.key, DirD)
                           => /\ Has(roomFiles'["R1"], old.key)
                              /\ Get(roomFiles'["R1"], old.key) = old.node]_vars

\* C36: no room's membership list holds the same user-id twice, and a join-room
\* (answered at once or after its awaits) by a connection that is already a
\* member of the room leaves every membership list as it was.
C36_NoDuplicateMember ==
    /\ [](\A r \in DOMAIN rooms : \A i, j \in 1..Len(rooms[r]) :
             rooms[r][i] = rooms[r][j] => i = j)
    /\ [][\A u \in {"u1", "u2"} :
             (/\ "R1" \in DOMAIN rooms
              /\ u \in Range(rooms["R1"])
              /\ \/ JoinRoom(u, "R1", "p")
                 \/ /\ [user |-> u, room |-> "R1", password |-> "p"] \in joinsAwaiting
                    /\ JoinRoomResume([user |-> u, room |-> "R1", password |-> "p"]))
                => rooms' = rooms]_vars

\* u2, a member of R1, has joined R1 again and got the short acknowledgement
C36_Witness ==
    /\ "R1" \in DOMAIN rooms
    /\ "u2" \in Range(rooms["R1"])
    /\ Len(out) = 1
    /\ out[1].ev = "ack"
    /\ out[1].to = {"u2"}
    /\ out[1].data = [success |-> TRUE]

\* C37: the active-token set is empty again and again, so that every sync
\* token that is in the set at some moment is removed from it later on.
C37_TokensExpire == []<>(fileSyncInProgress = << >>)

\* the sync timer of R1 has written main.js under its editor token, which has
\* 300 ms left
C37_Witness ==
    /\ Token("editor", "R1", MainJs) \in DOMAIN fileSyncInProgress
    /\ fileSyncInProgress[Token("editor", "R1", MainJs)] = TokenTicks
    /\ IsFileOnDisk(Cur, "R1", MainJs)

\* C38: a connection whose disconnect has been handled is in no room's
\* membership list and has no PTY and no active-file entry.
C38_GoneForGood ==
    \A u \in DOMAIN socketRooms :
        u \notin connected
            => /\ \A r \in DOMAIN rooms : u \notin Range(rooms[r])
               /\ u \notin DOMAIN terminals
               /\ u \notin DOMAIN userActiveFiles

\* C39: every connection is in the membership list of at most one room, and
\* its PTY and its user-to-room binding, when it has them, name that room.
C39_OneRoomAtATime ==
    \A u \in connected :
        /\ Cardinality({r \in DOMAIN rooms : u \in Range(rooms[r])}) <= 1
        /\ \A r \in DOMAIN rooms :
              u \in Range(rooms[r])
                 => /\ u \in DOMAIN terminals => terminals[u].room = r
                    /\ u \in DOMAIN userRooms => userRooms[u] = r

\* C40: a code-change of member u1 for an existing file node p puts the
\* received code in that node and changes nothing else of the tree, of the
\* membership and of the active files, and sends one code-update with the
\* code to the other members of the room and not to u1.
C40_CodeChangeReplaces ==
    [][\A p \in {MainJs, FileX} :
          (/\ "R1" \in DOMAIN rooms
           /\ "u1" \in Range(rooms["R1"])
           /\ IsFileItem(Cur, "R1", p)
           /\ CodeChange("u1", "R1", "x=1", p))
              => /\ Len(roomFiles'["R1"]) = Len(roomFiles["R1"])
                 /\ \A j \in 1..Len(roomFiles["R1"]) :
                       roomFiles'["R1"][j] =
                          IF roomFiles["R1"][j].key = p
                          THEN [roomFiles["R1"][j] EXCEPT !.node.content = "x=1"]
                          ELSE roomFiles["R1"][j]
                 /\ rooms' = rooms
                 /\ userActiveFiles' = userActiveFiles
                 /\ Len(out') = 1
                 /\ out'[1].ev = "code-update"
                 /\ out'[1].to = Range(rooms["R1"]) \ {"u1"}
                 /\ out'[1].data = [code |-> "x=1", fileName |-> p, fromUser |-> "u1"]]_vars

\* u1 has changed main.js, whose node has the new code, and u2, the other
\* member, is the only one to whom the update went
C40_Witness ==
    /\ "R1" \in DOMAIN rooms
    /\ rooms["R1"] = <<"u1", "u2">>
    /\ Len(out) = 1
    /\ out[1].ev = "code-update"
    /\ out[1].to = {"u2"}
    /\ Get(roomFiles["R1"], MainJs).content = "x=1"
====
